---- MODULE Spec2Model ----
(***************************************************************************)
(* Model of the table-stitching and cell-normalisation code of the        *)
(* repository (merge_tables.py, merge_tables_2.py, merge_tables_3.py,      *)
(* analyze_tables.py, analyze_tables_2.py).                                *)
(*                                                                         *)
(* Strings are sequences of one-character strings, so that strip(),        *)
(* replace(), the regular expressions and "+" are computed and not         *)
(* assumed.  A DataFrame is a record [cols, rows]: cols is the sequence of *)
(* column labels (pandas keeps the labels when columns are dropped or      *)
(* sliced, and pd.concat aligns frames on them), rows the sequence of      *)
(* rows, each a sequence of cells in the order of cols.                    *)
(***************************************************************************)
EXTENDS Integers, Sequences, FiniteSets, TLC

VARIABLES
    \* ---- merge_tables.py: merge_tables_in_folder ----
    files,          \* page number -> raw CSV grid of page_{N}_tables.csv
    csv_files,      \* the sorted list of pages that have a file
    pc,             \* position in merge_tables_in_folder
    idx,            \* index of the scan loop (line 210)
    groups,         \* list of [start, pages]
    current_pages,
    current_start,
    used_files,
    gi,             \* index of the merge loop over groups (line 242)
    fi,             \* index of the loop over file_list[1:] (line 250)
    main_df,
    outputs,        \* the merged_page_*.csv files written, in order
    skipped,        \* files reported "incompatible columns, skipping" (line 276)
    oracle_calls,   \* calls made to the language-model client
    \* ---- merge_tables_2.py, merge_tables_3.py: merge_connected_tables ----
    variant,        \* 2: merge_tables_2.py, 3: merge_tables_3.py
    page_files,     \* the pages p for which page_{p}_tables.csv exists
    o_pc,
    current_idx,
    processed_pages,
    current_page,
    next_page,
    connected_files,
    last_outcome,   \* what the last connection check got from the oracle
    last_verdict,   \* and what the loop did with it
    results,        \* the tables produced, in order
    escaped,        \* an exception left merge_connected_tables
    \* ---- merge_tables.py: unify_empty_columns_in_first_row, on its own ----
    r_pc,
    r_in,           \* the fragment given
    r_out,          \* the result
    r_twice,        \* the result of the reducer on r_out
    \* ---- analyze_tables.py, analyze_tables_2.py: format_chemical_formula ----
    f_pc,
    f_variant,      \* 1: analyze_tables.py, 2: analyze_tables_2.py
    f_in,
    f_out,
    f_twice,
    \* ---- analyze_tables.py, analyze_tables_2.py: the normaliser on one value ----
    val_variant,    \* 1: analyze_tables.py, 2: analyze_tables_2.py
    val_in,         \* the Python value given
    val_limit,      \* define_limit_type(val_in)
    val_range,      \* format_range_value(val_in)
    val_twice,      \* format_range_value(val_range)
    val_name,       \* format_chemical_formula(val_in)
    val_done,       \* the functions applied so far
    \* ---- analyze_tables.py, analyze_tables_2.py: the parameters of a material ----
    p_variant,      \* 1: analyze_tables.py, 2: analyze_tables_2.py
    p_pc,
    p_params,       \* mat["parameters"] as the oracle returned it
    p_processed,    \* the list "processed" at the end of the loop of process_parameters
    p_out,          \* mat["parameters"] afterwards
    p_caught,       \* an exception was caught (analyze_tables_2.py line 505)
    \* ---- analyze_tables.py: analyze_csv_with_rag ----
    a_pc,
    a_rows,         \* len(rows)
    a_structure,    \* what analyze_headers_and_relationships returned
    a_grouping,     \* what find_semantic_groups returned
    a_next,         \* position of the loop over groups_info
    a_replies,      \* the extraction calls made so far and what the oracle replied
    all_materials,
    grouped_data,
    warning_msgs,
    a_result,       \* "result": the result dict, "error": a dict with "error"
    \* ---- merge_tables.py: the loop of unify_empty_columns_in_first_row ----
    u_pc,
    u_in,           \* df
    u_df,           \* df2
    \* ---- analyze_tables_2.py: extract_table_data ----
    e_pc,
    e_data,         \* the rows given
    e_idx,          \* rows of data taken so far
    e_mats,         \* the material dicts made so far
    e_cur,          \* current_material
    e_par,          \* current_parameter
    e_results,      \* results["materials"]
    e_out           \* the list returned, read through the references

stitchVars == <<files, csv_files, pc, idx, groups, current_pages, current_start,
                used_files, gi, fi, main_df, outputs, skipped>>

oracleVars == <<variant, page_files, o_pc, current_idx, processed_pages,
                current_page, next_page, connected_files, last_outcome,
                last_verdict, results, escaped>>

reducerVars == <<r_pc, r_in, r_out, r_twice>>

formulaVars == <<f_pc, f_variant, f_in, f_out, f_twice>>

valueVars == <<val_variant, val_in, val_limit, val_range, val_twice, val_name, val_done>>

paramVars == <<p_variant, p_pc, p_params, p_processed, p_out, p_caught>>

ragVars == <<a_pc, a_rows, a_structure, a_grouping, a_next, a_replies,
             all_materials, grouped_data, warning_msgs, a_result>>

unifyVars == <<u_pc, u_in, u_df>>

extractVars == <<e_pc, e_data, e_idx, e_mats, e_cur, e_par, e_results, e_out>>

lastVars == <<unifyVars, extractVars>>

laterVars == <<valueVars, paramVars, ragVars, lastVars>>

vars == <<stitchVars, oracle_calls, oracleVars, reducerVars, formulaVars, laterVars>>

-----------------------------------------------------------------------------
(* Bounds of the model. *)

NumFiles == 3
MaxCols == 3
MaxDataRows == 1
MaxPage == 4
MaxRedCols == 4
MaxRedRows == 1
MaxFormulaLen == 3
MaxPieces == 3
MaxParams == 2
MaxTableRows == 3
MaxExtractRows == 3

-----------------------------------------------------------------------------
(* Strings. *)

IsSpace(ch) == ch \in {" ", "\t", "\n"}

RECURSIVE LStrip(_)
LStrip(s) == IF s # <<>> /\ IsSpace(Head(s)) THEN LStrip(Tail(s)) ELSE s

RECURSIVE RStrip(_)
RStrip(s) ==
    IF s # <<>> /\ IsSpace(s[Len(s)]) THEN RStrip(SubSeq(s, 1, Len(s) - 1)) ELSE s

\* str.strip()
Strip(s) == RStrip(LStrip(s))

\* the length of the longest prefix of s made of characters of set
RECURSIVE SpanLen(_, _)
SpanLen(s, set) ==
    IF s # <<>> /\ Head(s) \in set THEN 1 + SpanLen(Tail(s), set) ELSE 0

DigitChars == {"0", "1", "2", "3", "4", "5", "6", "7", "8", "9"}

\* SubSeq from position i (1-based) to the end
From(s, i) == SubSeq(s, i, Len(s))

\* Matches  [+-]?\d+(?:[.,]\d+)?  greedily at the start of s:
\* [ok, len] where len is the length of the match.  sep is the set of
\* decimal separators accepted.
NumberPrefix(s, sep) ==
    LET sg == IF s # <<>> /\ Head(s) \in {"+", "-"} THEN 1 ELSE 0
        d1 == SpanLen(From(s, sg + 1), DigitChars)
        p  == sg + d1
        hasSep == p < Len(s) /\ s[p + 1] \in sep
        d2 == IF hasSep THEN SpanLen(From(s, p + 2), DigitChars) ELSE 0
    IN  IF d1 = 0 THEN [ok |-> FALSE, len |-> 0]
        ELSE IF d2 > 0 THEN [ok |-> TRUE, len |-> p + 1 + d2]
        ELSE [ok |-> TRUE, len |-> p]

ReplaceChar(s, a, b) == [i \in 1..Len(s) |-> IF s[i] = a THEN b ELSE s[i]]

Openers == {"(", "[", "{", "."}
Closers == {")", "]", "}", "."}

\* (a variant that leaves a dot after the number in place: "3." stays "3.")
remove_brackets_around_number(s) ==
    LET t   == Strip(s)
        o   == SpanLen(t, Openers \ {"."})
        u   == From(t, o + 1)
        m   == NumberPrefix(u, {".", ","})
    IN  IF m.ok /\ SpanLen(From(u, m.len + 1), Closers \ {"."}) = Len(u) - m.len
        THEN ReplaceChar(SubSeq(u, 1, m.len), ",", ".")
        ELSE s

\* r'^[\(\[\{\.]*([+-]?\d+(?:[.,]\d+)?)[\)\]\}\.]*$' on s.strip().  The classes
\* of the three parts are disjoint where they meet, except "." after the
\* integer part: the decimal group is tried first and, when the rest then is
\* not made of closers, the match without it is tried.
remove_brackets_and_dots_around_number(s) ==
    LET t   == Strip(s)
        o   == SpanLen(t, Openers)
        u   == From(t, o + 1)
        m   == NumberPrefix(u, {".", ","})
        m0  == NumberPrefix(u, {})
        fits(len) == SpanLen(From(u, len + 1), Closers) = Len(u) - len
    IN  IF m.ok /\ fits(m.len) THEN ReplaceChar(SubSeq(u, 1, m.len), ",", ".")
        ELSE IF m0.ok /\ fits(m0.len) THEN ReplaceChar(SubSeq(u, 1, m0.len), ",", ".")
        ELSE s

\* r'^[+-]?\d+(\.\d+)?$'
IsPlainNumber(s) ==
    LET m  == NumberPrefix(s, {"."})
        m0 == NumberPrefix(s, {})
    IN  (m.ok /\ m.len = Len(s)) \/ (m0.ok /\ m0.len = Len(s))

NonBlank(x) == Strip(x) # <<>>

row_is_all_digits(row) ==
    IF row = <<>> THEN FALSE
    ELSE LET non_empty_cells == SelectSeq(row, NonBlank)
         IN  IF non_empty_cells = <<>> THEN FALSE
             ELSE \A i \in 1..Len(non_empty_cells) :
                     IsPlainNumber(Strip(
                         remove_brackets_and_dots_around_number(non_empty_cells[i])))

-----------------------------------------------------------------------------
(* DataFrames. *)

\* a missing cell left by pd.concat where a frame lacks a column label
NaN == <<"<NaN>">>

\* pd.DataFrame()
EmptyFrame == [cols |-> <<>>, rows |-> <<>>]

NRows(df) == Len(df.rows)
NCols(df) == Len(df.cols)
\* df.empty
IsEmpty(df) == NRows(df) = 0 \/ NCols(df) = 0

Labels(df) == {df.cols[i] : i \in 1..Len(df.cols)}

RECURSIVE JoinCells(_)
JoinCells(row) == IF row = <<>> THEN <<>> ELSE Head(row) \o JoinCells(Tail(row))

BlankRow(row) == Strip(JoinCells(row)) = <<>>
KeepRow(row) == ~BlankRow(row)

\* pd.read_csv(header=None, dtype=str, keep_default_na=False) of a grid
\* labels the columns 0..n-1; the rows whose cells are all empty or
\* whitespace are then dropped.
load_csv(grid) ==
    [cols |-> [i \in 1..Len(grid[1]) |-> i - 1],
     rows |-> SelectSeq(grid, KeepRow)]

RemoveAt(s, j) == SubSeq(s, 1, j - 1) \o SubSeq(s, j + 1, Len(s))

\* (a variant that writes the "/" whether or not both sides are empty)
MergedCellAlwaysSlash(left, curr) == Strip(left) \o <<"/">> \o Strip(curr)

\* lines 157-163
MergedCell(left, curr) ==
    LET left_cell == Strip(left)
        curr_cell == Strip(curr)
    IN  IF left_cell # <<>> /\ curr_cell # <<>>
        THEN left_cell \o <<"/">> \o curr_cell
        ELSE IF left_cell # <<>> THEN left_cell ELSE curr_cell

\* (a variant that folds column j into column j-1 and does not drop it)
MergeColumnKept(df, j) ==
    [cols |-> df.cols,
     rows |-> [i \in 1..Len(df.rows) |->
                 [df.rows[i] EXCEPT ![j - 1] =
                     MergedCell(df.rows[i][j - 1], df.rows[i][j])]]]

\* lines 156-167: column j (1-based position) is folded into column j-1 in
\* every row and then dropped, by label
MergeColumn(df, j) ==
    [cols |-> RemoveAt(df.cols, j),
     rows |-> [i \in 1..Len(df.rows) |->
                 RemoveAt([df.rows[i] EXCEPT ![j - 1] =
                              MergedCell(df.rows[i][j - 1], df.rows[i][j])], j)]]

\* the positions the scan of lines 150-171 stops at
MergePositions(df) ==
    {j \in 2..NCols(df) :
        Strip(df.rows[1][j - 1]) # <<>> /\ Strip(df.rows[1][j]) = <<>>}

Min(S) == CHOOSE x \in S : \A y \in S : x <= y

\* (a variant without the outer while loop: one merge and no rescan)
UnifyOneMerge(df) ==
    IF NCols(df) < 2 \/ MergePositions(df) = {} THEN df
    ELSE MergeColumn(df, Min(MergePositions(df)))

\* lines 143-171: the scan restarts after each merge
RECURSIVE UnifyLoop(_)
UnifyLoop(df) ==
    IF NCols(df) < 2 \/ MergePositions(df) = {} THEN df
    ELSE UnifyLoop(MergeColumn(df, Min(MergePositions(df))))

unify_empty_columns_in_first_row(df) ==
    IF IsEmpty(df) \/ NRows(df) = 0 \/ NCols(df) < 2 THEN df ELSE UnifyLoop(df)

\* df[label] = "": a new last column, or, when the label is already one of
\* the frame's, that column overwritten
SetColumn(df, label) ==
    IF label \in Labels(df)
    THEN [df EXCEPT !.rows =
             [i \in 1..Len(df.rows) |->
                 [k \in 1..Len(df.cols) |->
                     IF df.cols[k] = label THEN <<>> ELSE df.rows[i][k]]]]
    ELSE [cols |-> Append(df.cols, label),
          rows |-> [i \in 1..Len(df.rows) |-> Append(df.rows[i], <<>>)]]

\* lines 266-267: for _ in range(diff): df2[df2.shape[1]] = ""
RECURSIVE PadColumns(_, _)
PadColumns(df, n) ==
    IF n = 0 THEN df ELSE PadColumns(SetColumn(df, NCols(df)), n - 1)

\* df2.iloc[:, :n]
TruncateColumns(df, n) ==
    [cols |-> SubSeq(df.cols, 1, n),
     rows |-> [i \in 1..Len(df.rows) |-> SubSeq(df.rows[i], 1, n)]]

Position(seq, x) == CHOOSE k \in 1..Len(seq) : seq[k] = x

NotIn(seq, S) == SelectSeq(seq, LAMBDA x : x \notin S)

Reindex(df, cols) ==
    [i \in 1..Len(df.rows) |->
        [k \in 1..Len(cols) |->
            IF cols[k] \in Labels(df)
            THEN df.rows[i][Position(df.cols, cols[k])] ELSE NaN]]

\* pd.concat([a, b], ignore_index=True): the columns are the union of the
\* two frames' labels, a's first, and each frame's cells go under their own
\* labels
Concat(a, b) ==
    LET cols == a.cols \o NotIn(b.cols, Labels(a))
    IN  [cols |-> cols, rows |-> Reindex(a, cols) \o Reindex(b, cols)]

\* lines 251-259: the candidate, reduced and without its first row
Candidate(grid) ==
    LET df2 == unify_empty_columns_in_first_row(load_csv(grid))
    IN  IF NRows(df2) > 1
        THEN [cols |-> df2.cols, rows |-> Tail(df2.rows)]
        ELSE EmptyFrame

\* lines 262-270
Reconcile(df2, main) ==
    LET diff == NCols(main) - NCols(df2)
    IN  IF diff > 0 THEN PadColumns(df2, diff)
        ELSE IF diff < 0 THEN TruncateColumns(df2, NCols(main))
        ELSE df2

\* lines 250-276, one file of file_list[1:]
MergeFile(main, grid) ==
    LET df2 == Reconcile(Candidate(grid), main)
    IN  IF NCols(df2) = NCols(main)
        THEN [df |-> Concat(main, df2), used |-> TRUE]
        ELSE [df |-> main, used |-> FALSE]

\* to_csv(index=False, header=False): a missing cell is written empty
to_csv(df) ==
    [i \in 1..Len(df.rows) |->
        [k \in 1..Len(df.cols) |->
            IF df.rows[i][k] = NaN THEN <<>> ELSE df.rows[i][k]]]

-----------------------------------------------------------------------------
(* merge_tables.py: merge_tables_in_folder. *)

\* current_start = None
NoPage == 0

InitScan == [groups |-> <<>>, current_pages |-> <<>>, current_start |-> NoPage]

\* lines 202-208
flush_group(st) ==
    IF st.current_pages # <<>>
    THEN [groups |-> Append(st.groups,
                            [start |-> st.current_start, pages |-> st.current_pages]),
          current_pages |-> <<>>,
          current_start |-> NoPage]
    ELSE st

\* (a variant in which an empty fragment closes the open group)
ScanStepEmptyCloses(st, p, grid) ==
    LET df == load_csv(grid)
    IN  IF IsEmpty(df) THEN flush_group(st)
        ELSE IF row_is_all_digits(df.rows[1])
        THEN IF st.current_pages = <<>>
             THEN [st EXCEPT !.current_pages = <<p>>, !.current_start = p]
             ELSE [st EXCEPT !.current_pages = Append(st.current_pages, p)]
        ELSE [flush_group(st) EXCEPT !.current_pages = <<p>>, !.current_start = p]

\* lines 210-236, one iteration of the scan over csv_files: page p, whose
\* file holds grid
ScanStep(st, p, grid) ==
    LET df == load_csv(grid)
    IN  IF IsEmpty(df) THEN st
        ELSE IF row_is_all_digits(df.rows[1])
        THEN IF st.current_pages = <<>>
             THEN [st EXCEPT !.current_pages = <<p>>, !.current_start = p]
             ELSE [st EXCEPT !.current_pages = Append(st.current_pages, p)]
        ELSE [flush_group(st) EXCEPT !.current_pages = <<p>>, !.current_start = p]

ScanState == [groups |-> groups, current_pages |-> current_pages,
              current_start |-> current_start]

\* ---- the page files the model is run on ----

DigitOf(k) == <<"0", "1", "2", "3", "4", "5", "6", "7", "8", "9">>[(k % 10) + 1]

\* the ways a page extraction writes a row number: 1  (2)  3.  4,5
NumberCell(c) ==
    CASE c % 4 = 1 -> <<DigitOf(c)>>
      [] c % 4 = 2 -> <<"(", DigitOf(c), ")">>
      [] c % 4 = 3 -> <<DigitOf(c), ".">>
      [] OTHER     -> <<DigitOf(c), ",", "5">>

Kinds == {"text", "digits", "gap"}

\* A page's table: a first row that is a real header (text), a row of
\* column numbers (digits), a row of column numbers with the second cell
\* empty (gap), or nothing but an empty row (blank); n columns; d data rows
\* followed by an empty row.
Shapes ==
    [kind : Kinds, n : {MaxCols - 1, MaxCols}, d : {0, MaxDataRows}]
        \cup {[kind |-> "blank", n |-> 1, d |-> 0]}

HeadRow(kind, n) ==
    [c \in 1..n |->
        CASE kind = "text"   -> <<"H", DigitOf(c)>>
          [] kind = "digits" -> NumberCell(c)
          [] kind = "gap"    -> IF c = 2 THEN <<>> ELSE NumberCell(c)
          [] OTHER           -> <<>>]

DataRow(p, r, n) == [c \in 1..n |-> <<"d", DigitOf(p), DigitOf(r), DigitOf(c)>>]

Grid(shape, p) ==
    <<HeadRow(shape.kind, shape.n)>>
        \o [r \in 1..shape.d |-> DataRow(p, r, shape.n)]
        \o (IF shape.d > 0 THEN <<[c \in 1..shape.n |-> <<>>]>> ELSE <<>>)

StitchInit ==
    /\ \E shape \in [1..NumFiles -> Shapes] :
          files = [p \in 1..NumFiles |-> Grid(shape[p], p)]
    /\ csv_files = [i \in 1..NumFiles |-> i]
    /\ pc = "scan"
    /\ idx = 1
    /\ groups = <<>>
    /\ current_pages = <<>>
    /\ current_start = NoPage
    /\ used_files = {}
    /\ gi = 0
    /\ fi = 0
    /\ main_df = EmptyFrame
    /\ outputs = <<>>
    /\ skipped = {}

\* lines 210-236
ScanFile ==
    /\ pc = "scan"
    /\ idx <= Len(csv_files)
    /\ LET st == ScanStep(ScanState, csv_files[idx], files[csv_files[idx]])
       IN  /\ groups' = st.groups
           /\ current_pages' = st.current_pages
           /\ current_start' = st.current_start
    /\ idx' = idx + 1
    /\ UNCHANGED <<files, csv_files, pc, used_files, gi, fi, main_df, outputs,
                   skipped>>
    /\ UNCHANGED <<oracle_calls, oracleVars, reducerVars, formulaVars, laterVars>>

\* line 239
EndScan ==
    /\ pc = "scan"
    /\ idx > Len(csv_files)
    /\ LET st == flush_group(ScanState)
       IN  /\ groups' = st.groups
           /\ current_pages' = st.current_pages
           /\ current_start' = st.current_start
    /\ pc' = "groups"
    /\ gi' = 1
    /\ UNCHANGED <<files, csv_files, idx, used_files, fi, main_df, outputs,
                   skipped>>
    /\ UNCHANGED <<oracle_calls, oracleVars, reducerVars, formulaVars, laterVars>>

\* lines 242-248
StartGroup ==
    /\ pc = "groups"
    /\ gi <= Len(groups)
    /\ main_df' = load_csv(files[groups[gi].pages[1]])
    /\ used_files' = used_files \cup {groups[gi].pages[1]}
    /\ fi' = 2
    /\ pc' = "files"
    /\ UNCHANGED <<files, csv_files, idx, groups, current_pages, current_start,
                   gi, outputs, skipped>>
    /\ UNCHANGED <<oracle_calls, oracleVars, reducerVars, formulaVars, laterVars>>

\* lines 250-276
MergeNextFile ==
    /\ pc = "files"
    /\ fi <= Len(groups[gi].pages)
    /\ LET f2 == groups[gi].pages[fi]
           r  == MergeFile(main_df, files[f2])
       IN  /\ main_df' = r.df
           /\ used_files' = IF r.used THEN used_files \cup {f2} ELSE used_files
           /\ skipped' = IF r.used THEN skipped ELSE skipped \cup {f2}
    /\ fi' = fi + 1
    /\ UNCHANGED <<files, csv_files, pc, idx, groups, current_pages,
                   current_start, gi, outputs>>
    /\ UNCHANGED <<oracle_calls, oracleVars, reducerVars, formulaVars, laterVars>>

\* merged_page_{start}.csv or merged_page_{start}-{end}.csv and its rows
Written(start, pages, df) ==
    [start |-> start, end |-> pages[Len(pages)], rows |-> to_csv(df)]

\* merge_tables_in_folder as a function of the list of page files: the scan
\* of lines 210-239 and the merge of lines 242-285
RECURSIVE ScanAll(_, _)
ScanAll(st, pages) ==
    IF pages = <<>> THEN st
    ELSE ScanAll(ScanStep(st, Head(pages), files[Head(pages)]), Tail(pages))

RECURSIVE MergeAll(_, _)
MergeAll(main, pages) ==
    IF pages = <<>> THEN main
    ELSE MergeAll(MergeFile(main, files[Head(pages)]).df, Tail(pages))

merge_tables_in_folder(pages) ==
    LET gs == flush_group(ScanAll(InitScan, pages)).groups
    IN  [k \in 1..Len(gs) |->
            Written(gs[k].start, gs[k].pages,
                    MergeAll(load_csv(files[gs[k].pages[1]]), Tail(gs[k].pages)))]

\* lines 278-285
WriteGroup ==
    /\ pc = "files"
    /\ fi > Len(groups[gi].pages)
    /\ outputs' = Append(outputs, Written(groups[gi].start, groups[gi].pages, main_df))
    /\ gi' = gi + 1
    /\ pc' = "groups"
    /\ UNCHANGED <<files, csv_files, idx, groups, current_pages, current_start,
                   used_files, fi, main_df, skipped>>
    /\ UNCHANGED <<oracle_calls, oracleVars, reducerVars, formulaVars, laterVars>>

\* line 287
Return ==
    /\ pc = "groups"
    /\ gi > Len(groups)
    /\ pc' = "done"
    /\ UNCHANGED <<files, csv_files, idx, groups, current_pages, current_start,
                   used_files, gi, fi, main_df, outputs, skipped>>
    /\ UNCHANGED <<oracle_calls, oracleVars, reducerVars, formulaVars, laterVars>>

StitchNext ==
    \/ ScanFile
    \/ EndScan
    \/ StartGroup
    \/ MergeNextFile
    \/ WriteGroup
    \/ Return

-----------------------------------------------------------------------------
(* merge_tables_2.py, merge_tables_3.py: analyze_pages_connection and      *)
(* merge_connected_tables.                                                 *)

\* JSON values the oracle may put in a field, by their JSON text
JsonValues == {"true", "false", "\"false\"", "\"\"", "1", "0", "null"}

\* Python's truth value of a parsed JSON value
Truthy(v) == v \in {"true", "\"false\"", "1"}

RequiredFields == {"is_continuation", "table_title", "reason", "same_dimensions"}

\* What a connection check can meet: the page image cannot be made, the
\* client call raises, the reply holds no {...}, the {...} does not parse,
\* it parses to an object that lacks one required field (the fields it has
\* saying true), or it parses to an object with all four fields.
Outcomes ==
    {[kind |-> k, missing |-> "none", is_continuation |-> "null",
      same_dimensions |-> "null"] :
        k \in {"image_error", "call_error", "no_json", "bad_json"}}
    \cup {[kind |-> "json", missing |-> f,
           is_continuation |-> IF f = "is_continuation" THEN "null" ELSE "true",
           same_dimensions |-> IF f = "same_dimensions" THEN "null" ELSE "true"] :
              f \in RequiredFields}
    \cup [kind : {"json"}, missing : {"none"},
          is_continuation : JsonValues, same_dimensions : JsonValues]

NoOutcome == [kind |-> "none", missing |-> "none", is_continuation |-> "null",
              same_dimensions |-> "null"]

\* the dict returned on a failure
Failed(reason) ==
    [none |-> FALSE, is_continuation |-> "false", same_dimensions |-> "false",
     reason |-> reason]

\* the function falls off its end: the result is None
ReturnsNone ==
    [none |-> TRUE, is_continuation |-> "null", same_dimensions |-> "null",
     reason |-> ""]

\* (a variant without the test of the required fields: a field that is
\* not there reads as null)
analyze_pages_connection_unchecked(o, v) ==
    CASE o.kind = "call_error" -> Failed("exception")
      [] o.kind = "no_json" ->
            IF v = 3 THEN Failed("JSON not found") ELSE ReturnsNone
      [] o.kind = "bad_json" -> Failed("Invalid JSON")
      [] OTHER ->
            [none |-> FALSE, is_continuation |-> o.is_continuation,
             same_dimensions |-> o.same_dimensions, reason |-> "json"]

\* merge_tables_2.py lines 84-110, merge_tables_3.py lines 116-167
analyze_pages_connection(o, v) ==
    CASE o.kind = "call_error" -> Failed("exception")
      [] o.kind = "no_json" ->
            IF v = 3 THEN Failed("JSON not found") ELSE ReturnsNone
      [] o.kind = "bad_json" -> Failed("Invalid JSON")
      [] o.kind = "json" /\ o.missing # "none" -> Failed("Invalid response")
      [] OTHER ->
            [none |-> FALSE, is_continuation |-> o.is_continuation,
             same_dimensions |-> o.same_dimensions, reason |-> "json"]

\* merge_tables_2.py lines 254-277, merge_tables_3.py lines 299-322: the body
\* of the try block.  "raise" is an exception raised inside it:
\* create_page_image failing, or result["is_continuation"] on None.
TryCheck(o, v) ==
    IF o.kind = "image_error" THEN "raise"
    ELSE LET result == analyze_pages_connection(o, v)
         IN  IF result.none THEN "raise"
             ELSE IF Truthy(result.is_continuation) /\ Truthy(result.same_dimensions)
             THEN "append"
             ELSE "break"

\* the try block with its except clause, which prints and breaks
CheckConnection(o, v) ==
    IF TryCheck(o, v) = "raise" THEN "caught" ELSE TryCheck(o, v)

SetToSeq(S) ==
    LET RECURSIVE Sorted(_)
        Sorted(T) == IF T = {} THEN <<>> ELSE <<Min(T)>> \o Sorted(T \ {Min(T)})
    IN  Sorted(S)

\* glob + sorted(key=get_page_number)
PageList == SetToSeq(page_files)

OracleInit ==
    /\ variant \in {2, 3}
    /\ page_files \in SUBSET (1..MaxPage)
    /\ o_pc = "start"
    /\ current_idx = 0
    /\ processed_pages = {}
    /\ current_page = NoPage
    /\ next_page = NoPage
    /\ connected_files = <<>>
    /\ last_outcome = NoOutcome
    /\ last_verdict = "none"
    /\ results = <<>>
    /\ escaped = FALSE

\* merge_tables_2.py lines 201-207: nothing to process
NoFiles ==
    /\ o_pc = "start"
    /\ page_files = {}
    /\ o_pc' = "done"
    /\ UNCHANGED <<variant, page_files, current_idx, processed_pages,
                   current_page, next_page, connected_files, last_outcome,
                   last_verdict, results, escaped, oracle_calls>>
    /\ UNCHANGED <<stitchVars, reducerVars, formulaVars, laterVars>>

\* lines 209-221
Begin ==
    /\ o_pc = "start"
    /\ page_files # {}
    /\ o_pc' = "outer"
    /\ UNCHANGED <<variant, page_files, current_idx, processed_pages,
                   current_page, next_page, connected_files, last_outcome,
                   last_verdict, results, escaped, oracle_calls>>
    /\ UNCHANGED <<stitchVars, reducerVars, formulaVars, laterVars>>

\* merge_tables_2.py lines 222-237: the head of the outer loop (current_idx
\* counts from 0 as in the code)
OuterStep ==
    /\ o_pc = "outer"
    /\ current_idx < Len(PageList)
    /\ LET page == PageList[current_idx + 1]
       IN  IF page \in processed_pages
           THEN /\ current_idx' = current_idx + 1
                /\ UNCHANGED <<o_pc, current_page, next_page, connected_files>>
           ELSE /\ current_page' = page
                /\ connected_files' = <<page>>
                /\ next_page' = page + 1
                /\ o_pc' = "inner"
                /\ UNCHANGED current_idx
    /\ UNCHANGED <<variant, page_files, processed_pages, last_outcome,
                   last_verdict, results, escaped, oracle_calls>>
    /\ UNCHANGED <<stitchVars, reducerVars, formulaVars, laterVars>>

\* lines 239-244: the next page has no file
NoNextFile ==
    /\ o_pc = "inner"
    /\ next_page \notin page_files
    /\ o_pc' = "close"
    /\ UNCHANGED <<variant, page_files, current_idx, processed_pages,
                   current_page, next_page, connected_files, last_outcome,
                   last_verdict, results, escaped, oracle_calls>>
    /\ UNCHANGED <<stitchVars, reducerVars, formulaVars, laterVars>>

\* lines 252-277: one connection check (the test of lines 248-250 cannot
\* hold, next_page being current_page + 1)
CheckNextPage ==
    /\ o_pc = "inner"
    /\ next_page \in page_files
    /\ \E o \in Outcomes :
          LET verdict == CheckConnection(o, variant)
          IN  /\ last_outcome' = o
              /\ last_verdict' = verdict
              /\ oracle_calls' = IF o.kind = "image_error" THEN oracle_calls
                                 ELSE oracle_calls + 1
              /\ escaped' = (escaped \/ verdict = "raise")
              /\ IF verdict = "append"
                 THEN /\ connected_files' = Append(connected_files, next_page)
                      /\ current_page' = next_page
                      /\ next_page' = next_page + 1
                      /\ UNCHANGED o_pc
                 ELSE /\ o_pc' = IF verdict = "raise" THEN "done" ELSE "close"
                      /\ UNCHANGED <<connected_files, current_page, next_page>>
    /\ UNCHANGED <<variant, page_files, current_idx, processed_pages, results>>
    /\ UNCHANGED <<stitchVars, reducerVars, formulaVars, laterVars>>

\* the table of a run and whether its merged file got written (the merge of
\* lines 291-342 is given up, with a message, when the columns cannot be
\* brought to agree)
Produced(pages, written) == [pages |-> pages, written |-> written]

\* (a variant that leaves current_idx where it was after a merged run)
CloseRunStays ==
    /\ o_pc = "close"
    /\ IF Len(connected_files) > 1
       THEN /\ processed_pages' =
                  processed_pages \cup {connected_files[i] : i \in 1..Len(connected_files)}
            /\ \E ok \in BOOLEAN :
                  results' = Append(results, Produced(connected_files, ok))
            /\ current_idx' = current_idx
       ELSE /\ processed_pages' = processed_pages \cup {current_page}
            /\ results' = Append(results, Produced(connected_files, TRUE))
            /\ current_idx' = current_idx + 1
    /\ o_pc' = "outer"
    /\ UNCHANGED <<variant, page_files, current_page, next_page, connected_files,
                   last_outcome, last_verdict, escaped, oracle_calls>>
    /\ UNCHANGED <<stitchVars, reducerVars, formulaVars, laterVars>>

\* lines 280-354
CloseRun ==
    /\ o_pc = "close"
    /\ IF Len(connected_files) > 1
       THEN /\ processed_pages' =
                  processed_pages \cup {connected_files[i] : i \in 1..Len(connected_files)}
            /\ \E ok \in BOOLEAN :
                  results' = Append(results, Produced(connected_files, ok))
            /\ current_idx' =
                  Position(PageList, connected_files[Len(connected_files)])
       ELSE /\ processed_pages' = processed_pages \cup {current_page}
            /\ results' = Append(results, Produced(connected_files, TRUE))
            /\ current_idx' = current_idx + 1
    /\ o_pc' = "outer"
    /\ UNCHANGED <<variant, page_files, current_page, next_page, connected_files,
                   last_outcome, last_verdict, escaped, oracle_calls>>
    /\ UNCHANGED <<stitchVars, reducerVars, formulaVars, laterVars>>

\* line 222: the loop ends
Finish ==
    /\ o_pc = "outer"
    /\ current_idx >= Len(PageList)
    /\ o_pc' = "done"
    /\ UNCHANGED <<variant, page_files, current_idx, processed_pages,
                   current_page, next_page, connected_files, last_outcome,
                   last_verdict, results, escaped, oracle_calls>>
    /\ UNCHANGED <<stitchVars, reducerVars, formulaVars, laterVars>>

OracleNext ==
    \/ NoFiles
    \/ Begin
    \/ OuterStep
    \/ NoNextFile
    \/ CheckNextPage
    \/ CloseRun
    \/ Finish

-----------------------------------------------------------------------------
(* merge_tables.py: unify_empty_columns_in_first_row applied to a fragment *)
(* and to its own result.                                                  *)

\* first-row cells: empty, a space, a label
RedHeadRows(n) ==
    {[c \in 1..n |-> CASE h[c] = 0 -> <<>>
                       [] h[c] = 1 -> <<" ">>
                       [] OTHER    -> <<"H", DigitOf(c)>>] : h \in [1..n -> 0..2]}

\* other rows: each cell empty or filled, or every cell filled and padded
\* with spaces
RedDataRows(n) ==
    {[c \in 1..n |-> IF c \in S THEN <<"x", DigitOf(c)>> ELSE <<>>] :
        S \in SUBSET (1..n)}
    \cup {[c \in 1..n |-> <<" ", "y", DigitOf(c), " ">>]}

\* rows after the first data row: every cell filled, plain or padded
RedLaterRows(n) ==
    {[c \in 1..n |-> <<"x", DigitOf(c)>>],
     [c \in 1..n |-> <<" ", "y", DigitOf(c), " ">>]}

\* no data row, or one row of RedDataRows followed by rows of RedLaterRows
RedBodies(n) ==
    {<<>>} \cup
    UNION {{<<d>> \o t : d \in RedDataRows(n), t \in [1..k -> RedLaterRows(n)]} :
           k \in 0..(MaxRedRows - 1)}

RedGrids ==
    UNION {{<<h>> \o d : h \in RedHeadRows(n), d \in RedBodies(n)} :
           n \in 1..MaxRedCols}

ReducerInit ==
    /\ r_pc = "in"
    /\ \E g \in RedGrids : r_in = load_csv(g)
    /\ r_out = EmptyFrame
    /\ r_twice = EmptyFrame

Reduce ==
    /\ r_pc = "in"
    /\ r_out' = unify_empty_columns_in_first_row(r_in)
    /\ r_pc' = "once"
    /\ UNCHANGED <<r_in, r_twice>>
    /\ UNCHANGED <<stitchVars, oracle_calls, oracleVars, formulaVars, laterVars>>

ReduceAgain ==
    /\ r_pc = "once"
    /\ r_twice' = unify_empty_columns_in_first_row(r_out)
    /\ r_pc' = "twice"
    /\ UNCHANGED <<r_in, r_out>>
    /\ UNCHANGED <<stitchVars, oracle_calls, oracleVars, formulaVars, laterVars>>

ReducerNext ==
    \/ Reduce
    \/ ReduceAgain

-----------------------------------------------------------------------------
(* analyze_tables.py, analyze_tables_2.py: format_chemical_formula.        *)
(* Characters outside ASCII are named: "_4" is the subscript four, "cyrC"  *)
(* and "cyrH" the Cyrillic letters that look like C and H, "cyr3" the      *)
(* Cyrillic letter that looks like 3.                                      *)

Contains(s, sub) ==
    \E i \in 1..(Len(s) - Len(sub) + 1) : SubSeq(s, i, i + Len(sub) - 1) = sub

\* str.replace(old, new): the occurrences of old are taken from the left,
\* without overlap
RECURSIVE Replace(_, _, _)
Replace(s, old, new) ==
    IF Len(s) < Len(old) THEN s
    ELSE IF SubSeq(s, 1, Len(old)) = old
    THEN new \o Replace(From(s, Len(old) + 1), old, new)
    ELSE <<Head(s)>> \o Replace(Tail(s), old, new)

\* the dict "replacements", in its order
Replacements ==
    << <<(<<"C", "H", "4">>), (<<"C", "H", "_4">>)>>,
       <<(<<"C", "O", "2">>), (<<"C", "O", "_2">>)>>,
       <<(<<"H", "2">>), (<<"H", "_2">>)>>,
       <<(<<"C", "2", "H", "6">>), (<<"C", "_2", "H", "_6">>)>>,
       <<(<<"C", "3", "H", "8">>), (<<"C", "_3", "H", "_8">>)>>,
       <<(<<"C", "4", "H", "1", "0">>), (<<"C", "_4", "H", "_1", "_0">>)>>,
       <<(<<"C", "5", "H", "1", "2">>), (<<"C", "_5", "H", "_1", "_2">>)>>,
       <<(<<"C", "6", "H", "1", "4">>), (<<"C", "_6", "H", "_1", "_4">>)>>,
       <<(<<"C", "7", "H", "1", "6">>), (<<"C", "_7", "H", "_1", "_6">>)>>,
       <<(<<"C", "8", "H", "1", "8">>), (<<"C", "_8", "H", "_1", "_8">>)>>,
       <<(<<"C", "H">>), (<<"C", "H", "_4">>)>>,
       <<(<<"C", "2", "H", "4">>), (<<"C", "_2", "H", "_4">>)>>,
       <<(<<"C", "3", "H", "6">>), (<<"C", "_3", "H", "_6">>)>>,
       <<(<<"C", "4">>), (<<"C", "_4", "H", "_1", "_0">>)>>,
       <<(<<"C", "5">>), (<<"C", "_5", "H", "_1", "_2">>)>>,
       <<(<<"C", "6">>), (<<"C", "_6", "H", "_1", "_4">>)>>,
       <<(<<"C", "7">>), (<<"C", "_7", "H", "_1", "_6">>)>>,
       <<(<<"C", "8">>), (<<"C", "_8", "H", "_1", "_8">>)>>,
       <<(<<"C", "cyr3", "H">>), (<<"C", "_3", "H", "_8">>)>> >>

\* for old, new in replacements.items(): formula = formula.replace(old, new)
RECURSIVE ApplyReplacements(_, _)
ApplyReplacements(s, table) ==
    IF table = <<>> THEN s
    ELSE ApplyReplacements(Replace(s, Head(table)[1], Head(table)[2]), Tail(table))

\* the special cases that run before the table: old is expanded to new
\* unless one of the two full forms is already in the formula
Expand(s, old, new, full1, full2) ==
    IF Contains(s, old) /\ ~(Contains(s, full1) \/ Contains(s, full2))
    THEN Replace(s, old, new)
    ELSE s

\* analyze_tables.py lines 239-295 (v = 1), analyze_tables_2.py lines
\* 234-285 (v = 2), for a string
format_chemical_formula(formula, v) ==
    IF formula = <<>> THEN formula
    ELSE
    LET f1 == Replace(Replace(formula, <<"cyrC">>, <<"C">>), <<"cyrH">>, <<"H">>)
        f2 == Replace(f1, <<" ">>, <<>>)
        f3 == Expand(f2, <<"C", "H">>,
                     IF v = 1 THEN <<"C", "H", "4">> ELSE <<"C", "H", "_4">>,
                     <<"C", "H", "4">>, <<"C", "H", "_4">>)
        f4 == Expand(f3, <<"C", "2", "H">>,
                     IF v = 1 THEN <<"C", "2", "H", "6">> ELSE <<"C", "_2", "H", "_6">>,
                     <<"C", "2", "H", "6">>, <<"C", "_2", "H", "_6">>)
        f5 == Expand(f4, <<"C", "3", "H">>,
                     IF v = 1 THEN <<"C", "3", "H", "8">> ELSE <<"C", "_3", "H", "_8">>,
                     <<"C", "3", "H", "8">>, <<"C", "_3", "H", "_8">>)
        f6 == ApplyReplacements(f5, Replacements)
    IN  Replace(f6, <<" ">>, <<>>)

FormulaAlphabet == {"C", "H", "2", "4", "_4", " ", "cyrC"}

\* the ASCII formulas the table has a full entry for
LookupKeys ==
    {Replacements[i][1] : i \in (1..10) \cup {12, 13}}

FormulaInputs ==
    UNION {[1..k -> FormulaAlphabet] : k \in 0..MaxFormulaLen} \cup LookupKeys

FormulaInit ==
    /\ f_pc = "in"
    /\ f_variant \in {1, 2}
    /\ f_in \in FormulaInputs
    /\ f_out = <<>>
    /\ f_twice = <<>>

Format ==
    /\ f_pc = "in"
    /\ f_out' = format_chemical_formula(f_in, f_variant)
    /\ f_pc' = "once"
    /\ UNCHANGED <<f_variant, f_in, f_twice>>
    /\ UNCHANGED <<stitchVars, oracle_calls, oracleVars, reducerVars, laterVars>>

FormatAgain ==
    /\ f_pc = "once"
    /\ f_twice' = format_chemical_formula(f_out, f_variant)
    /\ f_pc' = "twice"
    /\ UNCHANGED <<f_variant, f_in, f_out>>
    /\ UNCHANGED <<stitchVars, oracle_calls, oracleVars, reducerVars, laterVars>>

FormulaNext ==
    \/ Format
    \/ FormatAgain

-----------------------------------------------------------------------------
(* analyze_tables.py, analyze_tables_2.py: the values of a parameter and   *)
(* their normalisation.                                                    *)
(* A Python value is a record [t, s]: t its type and s its text (the       *)
(* characters of a str, the digits of a number).  The lowercase Cyrillic   *)
(* letters are named "cyr_n", "cyr_e", ...; "cyrH" is the capital of       *)
(* "cyr_n" and "cyrC" the capital of "cyr_s"; "div" is the sign of         *)
(* division used between the ends of a range.  The words min, max, range,  *)
(* exact, whose letters no code looks at, are one character each.          *)

Str(s) == [t |-> "str", s |-> s]
None == [t |-> "none", s |-> <<>>]
Num(digits) == [t |-> "int", s |-> digits]
EmptyList == [t |-> "list", s |-> <<>>]
\* a key a dict does not have
Absent == [t |-> "absent", s |-> <<>>]

IsStr(v) == v.t = "str"

\* Python's truth value: None, "", 0 and [] are false
PyTruthy(v) ==
    CASE v.t = "str"  -> v.s # <<>>
      [] v.t = "int"  -> v.s # <<"0">>
      [] OTHER        -> FALSE

\* 'не более', 'не менее', 'в пределах'
NeBolee == <<"cyr_n", "cyr_e", " ", "cyr_b", "cyr_o", "cyr_l", "cyr_e", "cyr_e">>
NeMenee == <<"cyr_n", "cyr_e", " ", "cyr_m", "cyr_e", "cyr_n", "cyr_e", "cyr_e">>
VPredelakh == <<"cyr_v", " ", "cyr_p", "cyr_r", "cyr_e", "cyr_d", "cyr_e", "cyr_l",
                "cyr_a", "cyr_kh">>

\* str.lower() of one character
LowerChar(ch) ==
    CASE ch = "cyrH" -> "cyr_n"
      [] ch = "cyrC" -> "cyr_s"
      [] ch = "C"    -> "c"
      [] ch = "H"    -> "h"
      [] ch = "O"    -> "o"
      [] OTHER       -> ch

\* str.lower()
Lower(s) == [i \in 1..Len(s) |-> LowerChar(s[i])]

Has(s, ch) == \E i \in 1..Len(s) : s[i] = ch

\* (a variant that looks for the dash before the phrases)
define_limit_type_dash_first(value) ==
    IF ~PyTruthy(value) \/ ~IsStr(value) THEN Str(<<>>)
    ELSE IF Has(value.s, "-") \/ Has(value.s, "div") THEN Str(<<"range">>)
    ELSE IF Contains(Lower(value.s), NeBolee) THEN Str(<<"max">>)
    ELSE IF Contains(Lower(value.s), NeMenee) THEN Str(<<"min">>)
    ELSE Str(<<"exact">>)

\* (a variant without the test of the argument: what is not a text with a
\* phrase or a dash is exact)
define_limit_type_default_exact(value) ==
    IF ~IsStr(value) THEN Str(<<"exact">>)
    ELSE IF Contains(Lower(value.s), NeBolee) THEN Str(<<"max">>)
    ELSE IF Contains(Lower(value.s), NeMenee) THEN Str(<<"min">>)
    ELSE IF Has(value.s, "-") \/ Has(value.s, "div") THEN Str(<<"range">>)
    ELSE Str(<<"exact">>)

\* analyze_tables.py lines 349-369
define_limit_type(value) ==
    IF ~PyTruthy(value) \/ ~IsStr(value) THEN Str(<<>>)
    ELSE LET val_lower == Lower(value.s)
         IN  IF Contains(val_lower, NeBolee) THEN Str(<<"max">>)
             ELSE IF Contains(val_lower, NeMenee) THEN Str(<<"min">>)
             ELSE IF Has(value.s, "-") \/ Has(value.s, "div") THEN Str(<<"range">>)
             ELSE Str(<<"exact">>)

\* the characters str.isdigit() accepts: the digits and the subscript digits
PyDigits ==
    DigitChars \cup {"_0", "_1", "_2", "_3", "_4", "_5", "_6", "_7", "_8", "_9"}

\* str.isdigit()
IsDigit(s) == s # <<>> /\ \A i \in 1..Len(s) : s[i] \in PyDigits

\* the length of the longest prefix of s without whitespace
RECURSIVE WordLen(_)
WordLen(s) == IF s # <<>> /\ ~IsSpace(Head(s)) THEN 1 + WordLen(Tail(s)) ELSE 0

\* str.split(): the words between runs of whitespace
RECURSIVE SplitWs(_)
SplitWs(s) ==
    LET t == LStrip(s)
    IN  IF t = <<>> THEN <<>>
        ELSE <<SubSeq(t, 1, WordLen(t))>> \o SplitWs(From(t, WordLen(t) + 1))

\* str.split(ch)
RECURSIVE SplitOn(_, _)
SplitOn(s, ch) ==
    IF ~Has(s, ch) THEN <<s>>
    ELSE LET i == CHOOSE k \in 1..Len(s) : s[k] = ch /\ \A j \in 1..(k - 1) : s[j] # ch
         IN  <<SubSeq(s, 1, i - 1)>> \o SplitOn(From(s, i + 1), ch)

\* (a variant that leaves two words as they are)
JoinTwoWords_never(value) == value

\* "10 20" -> "10-20": lines 318-321
JoinTwoWords(value) ==
    IF Has(value, " ") /\ ~Has(value, "-") /\ ~Has(value, ",")
    THEN LET parts == SplitWs(value)
         IN  IF Len(parts) = 2
                /\ \A i \in 1..2 :
                      IsDigit(Replace(Replace(parts[i], <<".">>, <<>>), <<",">>, <<>>))
             THEN parts[1] \o <<"-">> \o parts[2]
             ELSE value
    ELSE value

\* the qualifier phrase taken out: analyze_tables.py lines 324-329 lower the
\* whole value, analyze_tables_2.py lines 322-323 look for the lowercase
\* phrase 'не более' only
DropPhrase(value, phrase, v) ==
    IF v = 1
    THEN IF Contains(Lower(value), phrase)
         THEN Strip(Replace(Lower(value), phrase, <<>>))
         ELSE value
    ELSE IF Contains(value, phrase)
         THEN Strip(Replace(value, phrase, <<>>))
         ELSE value

\* lines 332: the spaces around a dash
TightenDash(value) ==
    Replace(Replace(Replace(value, <<" ", "-", " ">>, <<"-">>),
                    <<" ", "-">>, <<"-">>),
            <<"-", " ">>, <<"-">>)

\* "10,20" -> "10-20": lines 336-339
JoinOnComma(value) ==
    IF Has(value, ",") /\ ~Has(value, "-")
    THEN LET parts == SplitOn(value, ",")
         IN  IF Len(parts) = 2
                /\ \A i \in 1..2 : IsDigit(Replace(Strip(parts[i]), <<".">>, <<>>))
             THEN Strip(parts[1]) \o <<"-">> \o Strip(parts[2])
             ELSE value
    ELSE value

\* the body of format_range_value on a non-empty str
RangeText(value, v) ==
    LET v1 == Strip(Replace(value, VPredelakh, <<>>))
        v2 == Replace(v1, <<"div">>, <<"-">>)
        v3 == JoinTwoWords(v2)
        v4 == DropPhrase(v3, NeBolee, v)
        v5 == IF v = 1 THEN DropPhrase(v4, NeMenee, v) ELSE v4
        v6 == TightenDash(v5)
        v7 == JoinOnComma(v6)
    IN  Strip(v7)

\* analyze_tables.py lines 297-347 (v = 1), analyze_tables_2.py lines 303-340
\* (v = 2)
format_range_value(value, v) ==
    IF ~PyTruthy(value) \/ ~IsStr(value) THEN value
    ELSE Str(RangeText(value.s, v))

\* format_chemical_formula on a Python value
format_name(value, v) ==
    IF ~PyTruthy(value) \/ ~IsStr(value) THEN value
    ELSE Str(format_chemical_formula(value.s, v))

\* ---- the values the normaliser is run on ----

\* 'Не более', as at the start of a cell
NeBoleeCap == <<"cyrH">> \o Tail(NeBolee)

ValuePieces ==
    {<<"1">>, <<"5">>, <<".">>, <<",">>, <<"-">>, <<"div">>, <<" ">>,
     <<"1", "-", "5">>, <<"1", " ", "5">>, NeBolee, NeBoleeCap, NeMenee, VPredelakh}

\* the concatenations of k pieces
RECURSIVE Pieces(_)
Pieces(k) ==
    IF k = 0 THEN {<<>>}
    ELSE {a \o b : a \in Pieces(k - 1), b \in ValuePieces}

ValueTexts == UNION {Pieces(k) : k \in 0..MaxPieces}

\* None, 0, 5, [], a list with an item
NonStrings == {None, Num(<<"0">>), Num(<<"5">>), EmptyList, [t |-> "list", s |-> <<"1">>]}

ValueInputs == {Str(s) : s \in ValueTexts} \cup NonStrings

ValueInit ==
    /\ val_variant \in {1, 2}
    /\ val_in \in ValueInputs
    /\ val_limit = Absent
    /\ val_range = Absent
    /\ val_twice = Absent
    /\ val_name = Absent
    /\ val_done = {}

\* define_limit_type(value); analyze_tables_2.py has no such function
ClassifyLimit ==
    /\ val_in # Absent
    /\ val_variant = 1
    /\ "limit" \notin val_done
    /\ val_limit' = define_limit_type(val_in)
    /\ val_done' = val_done \cup {"limit"}
    /\ UNCHANGED <<val_variant, val_in, val_range, val_twice, val_name>>
    /\ UNCHANGED <<stitchVars, oracle_calls, oracleVars, reducerVars, formulaVars,
                   paramVars, ragVars, lastVars>>

\* format_range_value(value)
FormatRange ==
    /\ val_in # Absent
    /\ "range" \notin val_done
    /\ val_range' = format_range_value(val_in, val_variant)
    /\ val_done' = val_done \cup {"range"}
    /\ UNCHANGED <<val_variant, val_in, val_limit, val_twice, val_name>>
    /\ UNCHANGED <<stitchVars, oracle_calls, oracleVars, reducerVars, formulaVars,
                   paramVars, ragVars, lastVars>>

\* format_range_value on its own result
FormatRangeAgain ==
    /\ "range" \in val_done
    /\ "twice" \notin val_done
    /\ val_twice' = format_range_value(val_range, val_variant)
    /\ val_done' = val_done \cup {"twice"}
    /\ UNCHANGED <<val_variant, val_in, val_limit, val_range, val_name>>
    /\ UNCHANGED <<stitchVars, oracle_calls, oracleVars, reducerVars, formulaVars,
                   paramVars, ragVars, lastVars>>

\* format_chemical_formula(value)
FormatName ==
    /\ val_in # Absent
    /\ "name" \notin val_done
    /\ val_name' = format_name(val_in, val_variant)
    /\ val_done' = val_done \cup {"name"}
    /\ UNCHANGED <<val_variant, val_in, val_limit, val_range, val_twice>>
    /\ UNCHANGED <<stitchVars, oracle_calls, oracleVars, reducerVars, formulaVars,
                   paramVars, ragVars, lastVars>>

ValueNext ==
    \/ ClassifyLimit
    \/ FormatRange
    \/ FormatRangeAgain
    \/ FormatName

-----------------------------------------------------------------------------
(* analyze_tables.py, analyze_tables_2.py: process_parameters and          *)
(* deduplicate_parameters on the parameters of one material.               *)
(* A parameter is a record [name, value, limit_type, notes] of Python      *)
(* values, Absent for a key the dict does not have.                        *)

\* dict.get(key): None for a key that is not there
Get(x) == IF x = Absent THEN None ELSE x

\* the body of the loop of process_parameters: analyze_tables.py lines
\* 386-399 (v = 1), analyze_tables_2.py lines 372-382 (v = 2)
ProcessOne(p, v) ==
    [name       |-> IF p.name # Absent THEN format_name(p.name, v) ELSE Absent,
     value      |-> IF p.value # Absent THEN format_range_value(p.value, v) ELSE Absent,
     limit_type |-> IF v = 1 /\ p.value # Absent THEN define_limit_type(p.value)
                    ELSE p.limit_type,
     notes      |-> p.notes]

\* the list "processed" at the end of the loop
ProcessLoop(params, v) == [i \in 1..Len(params) |-> ProcessOne(params[i], v)]

\* analyze_tables.py line 376: key = (p.get("name"), p.get("value"))
KeyOf(p) == <<Get(p.name), Get(p.value)>>

\* (a variant that keeps the last parameter of each key: one whose key
\* comes again later is left out)
DedupeKeepLast(parameters, seen) ==
    SelectSeq([i \in 1..Len(parameters) |->
                  IF \E j \in (i + 1)..Len(parameters) :
                        KeyOf(parameters[j]) = KeyOf(parameters[i])
                  THEN Absent ELSE parameters[i]],
              LAMBDA p : p # Absent)

\* analyze_tables.py lines 373-380: the loop of deduplicate_parameters over
\* parameters, seen being the keys met before
RECURSIVE Dedupe(_, _)
Dedupe(parameters, seen) ==
    IF parameters = <<>> THEN <<>>
    ELSE LET p == Head(parameters)
         IN  IF KeyOf(p) \notin seen
             THEN <<p>> \o Dedupe(Tail(parameters), seen \cup {KeyOf(p)})
             ELSE Dedupe(Tail(parameters), seen)

\* analyze_tables_2.py lines 289-301: param['name'] and param['value'] raise
\* KeyError for a key that is not there; the name of a parameter that is kept
\* is formatted in place, in the dict the list given holds too.
\* [raised, unique, list]: list is the list given after the call.
RECURSIVE Dedupe2(_, _, _, _)
Dedupe2(parameters, i, seen, unique) ==
    IF i > Len(parameters)
    THEN [raised |-> FALSE, unique |-> unique, list |-> parameters]
    ELSE LET p == parameters[i]
         IN  IF p.name = Absent \/ p.value = Absent
             THEN [raised |-> TRUE, unique |-> unique, list |-> parameters]
             ELSE IF <<p.name, p.value>> \notin seen
             THEN LET q == [p EXCEPT !.name = format_name(p.name, 2)]
                  IN  Dedupe2([parameters EXCEPT ![i] = q], i + 1,
                              seen \cup {<<p.name, p.value>>}, Append(unique, q))
             ELSE Dedupe2(parameters, i + 1, seen, unique)

\* ---- the parameters the oracle may return for a material ----

ParamNames == {Str(<<"H", "2">>), Str(<<"H", "_2">>), Absent}

ParamValues == {Str(NeBolee \o <<" ", "5">>), Str(<<"5">>), Absent}

\* the limit_type the oracle gives
ParamLimits == {Str(<<"exact">>), Absent}

ParamNotes == {Str(<<"a">>), Str(<<"b">>)}

Params == [name : ParamNames, value : ParamValues, limit_type : ParamLimits,
           notes : ParamNotes]

ParamLists == UNION {[1..k -> Params] : k \in 0..MaxParams}

ParamsInit ==
    /\ p_variant \in {1, 2}
    /\ p_pc = "process"
    /\ p_params \in ParamLists
    /\ p_processed = <<>>
    /\ p_out = <<>>
    /\ p_caught = FALSE

\* analyze_tables.py lines 508-510 and 382-402: process_parameters, which
\* ends with deduplicate_parameters
ProcessParameters1 ==
    /\ p_pc = "process"
    /\ p_variant = 1
    /\ p_processed' = ProcessLoop(p_params, 1)
    /\ p_out' = Dedupe(ProcessLoop(p_params, 1), {})
    /\ p_pc' = "done"
    /\ UNCHANGED <<p_variant, p_params, p_caught>>
    /\ UNCHANGED <<stitchVars, oracle_calls, oracleVars, reducerVars, formulaVars,
                   valueVars, ragVars, lastVars>>

\* analyze_tables_2.py lines 503 and 360-387: process_parameters
ProcessParameters2 ==
    /\ p_pc = "process"
    /\ p_variant = 2
    /\ p_processed' = ProcessLoop(p_params, 2)
    /\ p_out' = ProcessLoop(p_params, 2)
    /\ p_pc' = "dedupe"
    /\ UNCHANGED <<p_variant, p_params, p_caught>>
    /\ UNCHANGED <<stitchVars, oracle_calls, oracleVars, reducerVars, formulaVars,
                   valueVars, ragVars, lastVars>>

\* analyze_tables_2.py lines 504-507 and 287-301: deduplicate_parameters;
\* an exception it raises is caught and material['parameters'] is left as
\* it was
DeduplicateParameters2 ==
    /\ p_pc = "dedupe"
    /\ LET r == Dedupe2(p_out, 1, {}, <<>>)
       IN  /\ p_out' = IF r.raised THEN r.list ELSE r.unique
           /\ p_caught' = r.raised
    /\ p_pc' = "done"
    /\ UNCHANGED <<p_variant, p_params, p_processed>>
    /\ UNCHANGED <<stitchVars, oracle_calls, oracleVars, reducerVars, formulaVars,
                   valueVars, ragVars, lastVars>>

ParamsNext ==
    \/ ProcessParameters1
    \/ ProcessParameters2
    \/ DeduplicateParameters2

-----------------------------------------------------------------------------
(* analyze_tables.py: analyze_csv_with_rag and process_group.              *)
(* A row of the table is its number, 1..len(rows). A material is           *)
(* [row_number, name]: row_number is what the oracle wrote, name stands    *)
(* for the content of the row the material was extracted from.             *)

\* the numbers of a set, as an ascending list
SeqOf(S, n) ==
    LET F[k \in 0..n] ==
            IF k = 0 THEN <<>>
            ELSE IF k \in S THEN Append(F[k - 1], k) ELSE F[k - 1]
    IN  F[n]

Elems(s) == {s[i] : i \in DOMAIN s}

\* ---- what the oracle may reply ----

\* the names the oracle gives to groups, in the order of "groups"
GroupNames == <<"G1", "G2">>

\* the name of the subgroup the first group may have
SubgroupName == "S1"

\* the grouping with ng groups, the first with a subgroup if sub, and every
\* row where "where" puts it
MakeGrouping(n, ng, sub, where) ==
    [error  |-> FALSE,
     groups |-> [i \in 1..ng |->
                    [name       |-> GroupNames[i],
                     row_numbers |-> SeqOf({r \in 1..n : where[r] = GroupNames[i]}, n),
                     subgroups  |->
                        IF i = 1 /\ sub
                        THEN <<[name |-> SubgroupName,
                                row_numbers |->
                                    SeqOf({r \in 1..n : where[r] = SubgroupName}, n)]>>
                        ELSE <<>>]],
     ungrouped_rows |-> SeqOf({r \in 1..n : where[r] = "ungrouped_rows"}, n)]

\* where a row may be put: in a group, in the subgroup, in ungrouped_rows,
\* or in none of the lists
Places(ng, sub) ==
    {GroupNames[i] : i \in 1..ng} \cup (IF sub THEN {SubgroupName} ELSE {})
        \cup {"ungrouped_rows", "nowhere"}

\* the groupings find_semantic_groups may return for a table of n rows
Groupings(n) ==
    UNION {{MakeGrouping(n, ng, sub, where) : where \in [1..n -> Places(ng, sub)]} :
              ng \in 0..Len(GroupNames), sub \in {FALSE}} \cup
    UNION {{MakeGrouping(n, ng, TRUE, where) : where \in [1..n -> Places(ng, TRUE)]} :
              ng \in 1..Len(GroupNames)}

\* the dict DirectClient.create returns when the request or the parsing fails
GroupingError == [error |-> TRUE, groups |-> <<>>, ungrouped_rows |-> <<>>]

NoGrouping == [error |-> FALSE, groups |-> <<>>, ungrouped_rows |-> <<>>]

\* the replies to an extraction prompt: the request fails, the content is
\* not JSON, the JSON has no "materials", "materials" is null, "materials"
\* is a list with the row numbers of the table, or a list with the rows of
\* the fragment numbered from 1
Replies == {"fail", "badjson", "nomaterials", "null", "rows", "renumbered"}

\* lines 46-89: DirectClient.create, for a prompt that carries the rows
\* "fragment" and the reply "reply"
Create(reply, fragment) ==
    IF reply \in {"fail", "badjson"}
    THEN [error |-> TRUE, has_materials |-> FALSE, is_list |-> FALSE, materials |-> <<>>]
    ELSE IF reply = "nomaterials"
    THEN [error |-> FALSE, has_materials |-> FALSE, is_list |-> FALSE, materials |-> <<>>]
    ELSE IF reply = "null"
    THEN [error |-> FALSE, has_materials |-> TRUE, is_list |-> FALSE, materials |-> <<>>]
    ELSE [error |-> FALSE, has_materials |-> TRUE, is_list |-> TRUE,
          materials |-> [k \in 1..Len(fragment) |->
                            [row_number |-> IF reply = "rows" THEN fragment[k] ELSE k,
                             name       |-> fragment[k]]]]

\* lines 426 and 483: the rows of the table a list of row numbers names
GroupRows(row_numbers, n) == SelectSeq(row_numbers, LAMBDA i : 1 <= i /\ i <= n)

\* lines 423-426 and 479-483: the group and its subgroups, in the order of
\* the calls
UnitsOf(group_info) ==
    <<[name |-> group_info.name, row_numbers |-> group_info.row_numbers]>>
        \o group_info.subgroups

\* lines 474-476 and 503-505: the calls of process_group from the i-th on;
\* all_materials.extend raises TypeError for "materials" that is null.
\* [raised, materials, calls]
RECURSIVE ProcessUnits(_, _, _, _, _, _)
ProcessUnits(units, replies, n, i, materials, calls) ==
    IF i > Len(units)
    THEN [raised |-> FALSE, materials |-> materials, calls |-> calls]
    ELSE LET result == Create(replies[i], GroupRows(units[i].row_numbers, n))
             call   == [unit |-> units[i].name, row_numbers |-> units[i].row_numbers,
                        reply |-> replies[i]]
         IN  IF ~result.error /\ result.has_materials
             THEN IF result.is_list
                  THEN ProcessUnits(units, replies, n, i + 1,
                                    materials \o result.materials, Append(calls, call))
                  ELSE [raised |-> TRUE, materials |-> materials,
                        calls |-> Append(calls, call)]
             ELSE ProcessUnits(units, replies, n, i + 1, materials, Append(calls, call))

\* lines 407-512: process_group
process_group(n, group_info, replies) ==
    ProcessUnits(UnitsOf(group_info), replies, n, 1, <<>>, <<>>)

\* lines 563-568
pseudo_group(ungrouped) ==
    [name |-> "ungrouped", row_numbers |-> ungrouped, subgroups |-> <<>>]

\* what follows the loop over the groups from position i on
AfterGroups(grouping, i) ==
    IF i <= Len(grouping.groups) THEN "groups"
    ELSE IF grouping.ungrouped_rows # <<>> THEN "ungrouped"
    ELSE "pack"

\* f with every key of S set to name
Assign(f, S, name) ==
    [x \in DOMAIN f \cup S |-> IF x \in S THEN name ELSE f[x]]

\* (a variant in which the rows of a subgroup go to the subgroup's name)
RECURSIVE row_to_group_subgroup_name(_)
row_to_group_subgroup_name(groups_info) ==
    IF groups_info = <<>> THEN [x \in {} |-> ""]
    ELSE LET k     == Len(groups_info)
             group == groups_info[k]
             own   == Assign(row_to_group_subgroup_name(SubSeq(groups_info, 1, k - 1)),
                             Elems(group.row_numbers), group.name)
             F[j \in 0..Len(group.subgroups)] ==
                 IF j = 0 THEN own
                 ELSE Assign(F[j - 1], Elems(group.subgroups[j].row_numbers),
                             group.subgroups[j].name)
         IN  F[Len(group.subgroups)]

\* lines 580-588: row_to_group
RECURSIVE row_to_group(_)
row_to_group(groups_info) ==
    IF groups_info = <<>> THEN [x \in {} |-> ""]
    ELSE LET k     == Len(groups_info)
             group == groups_info[k]
             own   == Assign(row_to_group(SubSeq(groups_info, 1, k - 1)),
                             Elems(group.row_numbers), group.name)
             F[j \in 0..Len(group.subgroups)] ==
                 IF j = 0 THEN own
                 ELSE Assign(F[j - 1], Elems(group.subgroups[j].row_numbers),
                             group.name)
         IN  F[Len(group.subgroups)]

\* lines 595-598: row_obj (the materials of the model have no standard,
\* application or parameters)
RowObj(mat) == [row_name |-> mat.name, indicators |-> <<>>]

\* lines 573-577: grouped_data before the materials are packed
EmptyGroupedData(groups_info) ==
    [g \in {groups_info[i].name : i \in 1..Len(groups_info)} \cup {"ungrouped"} |-> <<>>]

\* lines 591-618: the materials from the i-th on packed into grouped_data
RECURSIVE PackMaterials(_, _, _, _)
PackMaterials(materials, i, lookup, data) ==
    IF i > Len(materials) THEN data
    ELSE LET mat   == materials[i]
             rnum  == mat.row_number
             gname == IF rnum \in DOMAIN lookup THEN lookup[rnum] ELSE "ungrouped"
         IN  PackMaterials(materials, i + 1, lookup,
                 IF gname \in DOMAIN data
                 THEN [data EXCEPT ![gname] = Append(@, RowObj(mat))]
                 ELSE data @@ (gname :> <<RowObj(mat)>>))

\* no grouped_data yet
NoData == [g \in {} |-> <<>>]

RagInit ==
    /\ a_pc = "structure"
    /\ a_rows \in 0..MaxTableRows
    /\ a_structure = "none"
    /\ a_grouping = NoGrouping
    /\ a_next = 1
    /\ a_replies = <<>>
    /\ all_materials = <<>>
    /\ grouped_data = NoData
    /\ warning_msgs = <<>>
    /\ a_result = "none"

\* lines 536-538: analyze_headers_and_relationships; its dict is returned
\* when it has "error"
AnalyzeStructure ==
    /\ a_pc = "structure"
    /\ \E reply \in {"ok", "error"} :
          /\ a_structure' = reply
          /\ a_pc' = IF reply = "error" THEN "done" ELSE "grouping"
          /\ a_result' = IF reply = "error" THEN "error" ELSE a_result
    /\ UNCHANGED <<a_rows, a_grouping, a_next, a_replies, all_materials,
                   grouped_data, warning_msgs>>
    /\ UNCHANGED <<stitchVars, oracle_calls, oracleVars, reducerVars, formulaVars,
                   valueVars, paramVars, lastVars>>

\* lines 546-552: find_semantic_groups; its dict is returned when it has
\* "error"
FindSemanticGroups ==
    /\ a_pc = "grouping"
    /\ \E grouping \in Groupings(a_rows) \cup {GroupingError} :
          /\ a_grouping' = grouping
          /\ a_pc' = IF grouping.error THEN "done" ELSE AfterGroups(grouping, 1)
          /\ a_result' = IF grouping.error THEN "error" ELSE a_result
    /\ UNCHANGED <<a_rows, a_structure, a_next, a_replies, all_materials,
                   grouped_data, warning_msgs>>
    /\ UNCHANGED <<stitchVars, oracle_calls, oracleVars, reducerVars, formulaVars,
                   valueVars, paramVars, lastVars>>

\* lines 557-559: process_group for the next group; an exception it raises
\* ends analyze_csv_with_rag at lines 638-640
ProcessNextGroup ==
    /\ a_pc = "groups"
    /\ LET group == a_grouping.groups[a_next]
       IN  \E replies \in [1..Len(UnitsOf(group)) -> Replies] :
              LET r == process_group(a_rows, group, replies)
              IN  /\ a_replies' = a_replies \o r.calls
                  /\ all_materials' = IF r.raised THEN all_materials
                                      ELSE all_materials \o r.materials
                  /\ a_pc' = IF r.raised THEN "done"
                             ELSE AfterGroups(a_grouping, a_next + 1)
                  /\ a_result' = IF r.raised THEN "error" ELSE a_result
    /\ a_next' = a_next + 1
    /\ UNCHANGED <<a_rows, a_structure, a_grouping, grouped_data, warning_msgs>>
    /\ UNCHANGED <<stitchVars, oracle_calls, oracleVars, reducerVars, formulaVars,
                   valueVars, paramVars, lastVars>>

\* lines 562-570: process_group for the rows of ungrouped_rows
ProcessUngrouped ==
    /\ a_pc = "ungrouped"
    /\ \E replies \in [1..1 -> Replies] :
          LET r == process_group(a_rows, pseudo_group(a_grouping.ungrouped_rows), replies)
          IN  /\ a_replies' = a_replies \o r.calls
              /\ all_materials' = IF r.raised THEN all_materials
                                  ELSE all_materials \o r.materials
              /\ a_pc' = IF r.raised THEN "done" ELSE "pack"
              /\ a_result' = IF r.raised THEN "error" ELSE a_result
    /\ UNCHANGED <<a_rows, a_structure, a_grouping, a_next, grouped_data, warning_msgs>>
    /\ UNCHANGED <<stitchVars, oracle_calls, oracleVars, reducerVars, formulaVars,
                   valueVars, paramVars, lastVars>>

\* lines 573-636: grouped_data, the warning and the result
PackResult ==
    /\ a_pc = "pack"
    /\ grouped_data' = PackMaterials(all_materials, 1, row_to_group(a_grouping.groups),
                                     EmptyGroupedData(a_grouping.groups))
    /\ warning_msgs' = IF a_grouping.groups = <<>> /\ a_grouping.ungrouped_rows = <<>>
                       THEN <<"no groups">> ELSE <<>>
    /\ a_result' = "result"
    /\ a_pc' = "done"
    /\ UNCHANGED <<a_rows, a_structure, a_grouping, a_next, a_replies, all_materials>>
    /\ UNCHANGED <<stitchVars, oracle_calls, oracleVars, reducerVars, formulaVars,
                   valueVars, paramVars, lastVars>>

RagNext ==
    \/ AnalyzeStructure
    \/ FindSemanticGroups
    \/ ProcessNextGroup
    \/ ProcessUngrouped
    \/ PackResult

-----------------------------------------------------------------------------
(* merge_tables.py: unify_empty_columns_in_first_row, one pass of its      *)
(* outer loop at a time.                                                   *)

\* the fragments the loop is run on: a first row of RedHeadRows, then rows
\* with every cell filled
UnifyGrids ==
    UNION {{<<h>> \o t : h \in RedHeadRows(n),
                         t \in UNION {[1..k -> RedLaterRows(n)] : k \in 0..MaxRedRows}} :
           n \in 1..MaxRedCols}

UnifyInit ==
    /\ u_pc = "start"
    /\ \E g \in UnifyGrids : u_in = load_csv(g)
    /\ u_df = EmptyFrame

\* lines 138-142: the frame is returned as it is, or copied
UnifyEnter ==
    /\ u_pc = "start"
    /\ u_df' = u_in
    /\ u_pc' = IF IsEmpty(u_in) \/ NRows(u_in) = 0 \/ NCols(u_in) < 2
               THEN "done" ELSE "loop"
    /\ UNCHANGED u_in
    /\ UNCHANGED <<stitchVars, oracle_calls, oracleVars, reducerVars, formulaVars,
                   valueVars, paramVars, ragVars, extractVars>>

\* lines 143-169: a pass that finds a column to merge, merges it, drops it
\* and leaves changed = True
UnifyMerge ==
    /\ u_pc = "loop"
    /\ NCols(u_df) >= 2
    /\ MergePositions(u_df) # {}
    /\ u_df' = MergeColumn(u_df, Min(MergePositions(u_df)))
    /\ UNCHANGED <<u_pc, u_in>>
    /\ UNCHANGED <<stitchVars, oracle_calls, oracleVars, reducerVars, formulaVars,
                   valueVars, paramVars, ragVars, extractVars>>

\* lines 143-173: the frame has one column (break), or the pass finds
\* nothing to merge and leaves changed = False; df2 is returned
UnifyReturn ==
    /\ u_pc = "loop"
    /\ NCols(u_df) < 2 \/ MergePositions(u_df) = {}
    /\ u_pc' = "done"
    /\ UNCHANGED <<u_in, u_df>>
    /\ UNCHANGED <<stitchVars, oracle_calls, oracleVars, reducerVars, formulaVars,
                   valueVars, paramVars, ragVars, extractVars>>

UnifyNext ==
    \/ UnifyEnter
    \/ UnifyMerge
    \/ UnifyReturn

-----------------------------------------------------------------------------
(* analyze_tables_2.py: extract_table_data, one row of data at a time.     *)
(* The material dicts made so far are e_mats; current_material,            *)
(* current_parameter and the items of results["materials"] are references  *)
(* to them: e_cur is a position in e_mats (0: None), e_par a pair          *)
(* <<material, position in its "parameters">> (NoRef: None), e_results a   *)
(* list of positions in e_mats.                                            *)

NoRef == <<0, 0>>

\* re.match(r'^\d+\.?$', cell) on a stripped cell: digits, then at most one
\* dot
IsMaterialNumber(cell) ==
    LET body == IF cell # <<>> /\ cell[Len(cell)] = "." THEN SubSeq(cell, 1, Len(cell) - 1)
                ELSE cell
    IN  body # <<>> /\ \A i \in 1..Len(body) : body[i] \in DigitChars

\* line 579: not row or all(not cell.strip() for cell in row)
IsBlankRow(row) == row = <<>> \/ \A i \in 1..Len(row) : ~NonBlank(row[i])

\* line 583: [str(cell).replace('\n', ' ').strip() for cell in row]
CleanRow(row) == [i \in 1..Len(row) |-> Strip(ReplaceChar(row[i], "\n", " "))]

\* row[k].strip() if len(row) > k and row[k] else ""  (k counted from 0)
CellOr(row, k) == IF Len(row) > k THEN Strip(row[k + 1]) ELSE <<>>

\* lines 590-597: the dict of a new material
NewMaterial(row_idx, row) ==
    [row_number |-> row_idx,
     number |-> Strip(row[1]),
     name |-> CellOr(row, 1),
     standard |-> CellOr(row, 2),
     parameters |-> <<>>,
     application |-> CellOr(row, 5)]

\* the signs of the first and third alternatives of the pattern of line 620;
\* the units written with letters are not in the values of the model
UnitSigns == {"%", "deg", "cyrC"}

\* line 620, re.search: the leftmost sign at the start of the value or after
\* whitespace (0: no match)
UnitMatch(value) ==
    LET at == {i \in 1..Len(value) :
                  value[i] \in UnitSigns /\ (i = 1 \/ IsSpace(value[i - 1]))}
    IN  IF at = {} THEN 0 ELSE Min(at)

\* lines 610-616: the limit type read from the value
ExtractLimitType(value) ==
    IF value = <<>> THEN <<"exact">>
    ELSE IF Contains(Lower(value), NeBolee) THEN <<"max">>
    ELSE IF Contains(Lower(value), NeMenee) THEN <<"min">>
    ELSE IF Has(value, "-") \/ Has(value, "div") THEN <<"range">>
    ELSE <<"exact">>

\* lines 601-623: the dict of a new parameter
NewParameter(row) ==
    LET value == CellOr(row, 4)
        m == UnitMatch(value)
    IN  [name |-> Strip(row[4]),
         value |-> IF value # <<>> /\ m > 0
                   THEN Strip(Replace(value, <<value[m]>>, <<>>)) ELSE value,
         unit |-> IF value # <<>> /\ m > 0 THEN <<value[m]>> ELSE <<>>,
         limit_type |-> ExtractLimitType(value)]

\* s += " " + t
PlusSpace(s, t) == s \o <<" ">> \o t

\* lines 629-642, a continuation row. The statements run in order and the
\* first cell missing raises IndexError, caught at line 644 with what was
\* done before it kept: row[3] is read when row[1] or row[2] is filled, and
\* row[5] before the parameter is touched.
ContinueRow(st, row) ==
    LET n == Len(row)
        has3 == n >= 4
        m == st.mats[st.cur]
        name1 == IF n >= 4 /\ row[2] # <<>> /\ row[4] = <<>>
                 THEN PlusSpace(m.name, row[2]) ELSE m.name
        raised1 == n < 2 \/ (row[2] # <<>> /\ ~has3)
        std1 == IF ~raised1 /\ n >= 4 /\ row[3] # <<>> /\ row[4] = <<>>
                THEN PlusSpace(m.standard, row[3]) ELSE m.standard
        raised2 == raised1 \/ n < 3 \/ (row[3] # <<>> /\ ~has3)
        raised3 == raised2 \/ n < 6
        app1 == IF ~raised3 /\ row[6] # <<>>
                THEN PlusSpace(m.application, row[6]) ELSE m.application
        m1 == [m EXCEPT !.name = name1, !.standard = std1, !.application = app1]
        mats1 == [st.mats EXCEPT ![st.cur] = m1]
        p == st.par
        mats2 == IF ~raised3 /\ row[4] # <<>> /\ p # NoRef
                 THEN [mats1 EXCEPT ![p[1]].parameters[p[2]].name = PlusSpace(@, row[4])]
                 ELSE mats1
        mats3 == IF ~raised3 /\ row[5] # <<>> /\ p # NoRef
                 THEN [mats2 EXCEPT ![p[1]].parameters[p[2]].value = PlusSpace(@, row[5])]
                 ELSE mats2
    IN  [st EXCEPT !.mats = mats3]

\* (a variant that keeps current_parameter when a new material starts)
StartMaterialKeepsParameter(st, row_idx, row) ==
    [st EXCEPT !.results = IF st.cur # 0 THEN Append(st.results, st.cur) ELSE st.results,
               !.mats = Append(st.mats, NewMaterial(row_idx, row)),
               !.cur = Len(st.mats) + 1]

\* lines 586-598: a material row
StartMaterial(st, row_idx, row) ==
    [st EXCEPT !.results = IF st.cur # 0 THEN Append(st.results, st.cur) ELSE st.results,
               !.mats = Append(st.mats, NewMaterial(row_idx, row)),
               !.cur = Len(st.mats) + 1,
               !.par = NoRef]

\* lines 600-626: a parameter row
AddParameter(st, row) ==
    [st EXCEPT !.mats[st.cur].parameters = Append(@, NewParameter(row)),
               !.par = <<st.cur, Len(st.mats[st.cur].parameters) + 1>>]

\* lines 577-646: the body of the loop for one row; the test of line 601
\* reads row[3] and raises on a row of fewer than four cells
ProcessRow(st, row_idx, raw) ==
    IF IsBlankRow(raw) THEN st
    ELSE LET row == CleanRow(raw)
         IN  IF row[1] # <<>> /\ IsMaterialNumber(row[1])
             THEN StartMaterial(st, row_idx, row)
             ELSE IF st.cur = 0 THEN st
             ELSE IF Len(row) < 4 THEN st
             ELSE IF row[4] # <<>> /\ row[1] = <<>> THEN AddParameter(st, row)
             ELSE ContinueRow(st, row)

\* ---- the rows the model is run on ----

\* the leading cells: empty, a number, a number with its dot, a number of a
\* subsection
LeadCells == {<<>>, <<"1">>, <<"2", ".">>, <<"1", ".", "1">>}

\* a row of six cells with nothing after the leading cell, with free text,
\* with a parameter; a row cut after its third cell
ExtractRows ==
    UNION {{<<l, <<>>, <<>>, <<>>, <<>>, <<>>>>,
            <<l, <<"n", "\n", "m">>, <<"s">>, <<>>, <<>>, <<"a", " ">>>>,
            <<l, <<>>, <<>>, <<"p">>, <<"5", " ", "%">>, <<>>>>,
            <<l, <<"n">>, <<"s">>>>} : l \in LeadCells}

ExtractState == [mats |-> e_mats, cur |-> e_cur, par |-> e_par, results |-> e_results]

ExtractInit ==
    /\ e_pc = "loop"
    /\ e_data \in UNION {[1..k -> ExtractRows] : k \in 0..MaxExtractRows}
    /\ e_idx = 0
    /\ e_mats = <<>>
    /\ e_cur = 0
    /\ e_par = NoRef
    /\ e_results = <<>>
    /\ e_out = <<>>

\* lines 577-646: one iteration of the loop over enumerate(data, 1)
ExtractRow ==
    /\ e_pc = "loop"
    /\ e_idx < Len(e_data)
    /\ LET st == ProcessRow(ExtractState, e_idx + 1, e_data[e_idx + 1])
       IN  /\ e_mats' = st.mats
           /\ e_cur' = st.cur
           /\ e_par' = st.par
           /\ e_results' = st.results
    /\ e_idx' = e_idx + 1
    /\ UNCHANGED <<e_pc, e_data, e_out>>
    /\ UNCHANGED <<stitchVars, oracle_calls, oracleVars, reducerVars, formulaVars,
                   valueVars, paramVars, ragVars, unifyVars>>

\* lines 648-652: the last material is added and the result returned
ExtractReturn ==
    /\ e_pc = "loop"
    /\ e_idx = Len(e_data)
    /\ e_results' = IF e_cur # 0 THEN Append(e_results, e_cur) ELSE e_results
    /\ e_out' = [k \in 1..Len(e_results') |-> e_mats[e_results'[k]]]
    /\ e_pc' = "done"
    /\ UNCHANGED <<e_data, e_idx, e_mats, e_cur, e_par>>
    /\ UNCHANGED <<stitchVars, oracle_calls, oracleVars, reducerVars, formulaVars,
                   valueVars, paramVars, ragVars, unifyVars>>

ExtractNext ==
    \/ ExtractRow
    \/ ExtractReturn

-----------------------------------------------------------------------------
(* The specifications: each runs one part of the program, the variables of *)
(* the other parts staying as they are.                                    *)

StitchIdle ==
    /\ files = <<>>
    /\ csv_files = <<>>
    /\ pc = "idle"
    /\ idx = 0
    /\ groups = <<>>
    /\ current_pages = <<>>
    /\ current_start = NoPage
    /\ used_files = {}
    /\ gi = 0
    /\ fi = 0
    /\ main_df = EmptyFrame
    /\ outputs = <<>>
    /\ skipped = {}

OracleIdle ==
    /\ variant = 3
    /\ page_files = {}
    /\ o_pc = "idle"
    /\ current_idx = 0
    /\ processed_pages = {}
    /\ current_page = NoPage
    /\ next_page = NoPage
    /\ connected_files = <<>>
    /\ last_outcome = NoOutcome
    /\ last_verdict = "none"
    /\ results = <<>>
    /\ escaped = FALSE

ReducerIdle ==
    /\ r_pc = "idle"
    /\ r_in = EmptyFrame
    /\ r_out = EmptyFrame
    /\ r_twice = EmptyFrame

FormulaIdle ==
    /\ f_pc = "idle"
    /\ f_variant = 1
    /\ f_in = <<>>
    /\ f_out = <<>>
    /\ f_twice = <<>>

ValueIdle ==
    /\ val_variant = 1
    /\ val_in = Absent
    /\ val_limit = Absent
    /\ val_range = Absent
    /\ val_twice = Absent
    /\ val_name = Absent
    /\ val_done = {}

ParamsIdle ==
    /\ p_variant = 1
    /\ p_pc = "idle"
    /\ p_params = <<>>
    /\ p_processed = <<>>
    /\ p_out = <<>>
    /\ p_caught = FALSE

RagIdle ==
    /\ a_pc = "idle"
    /\ a_rows = 0
    /\ a_structure = "none"
    /\ a_grouping = NoGrouping
    /\ a_next = 1
    /\ a_replies = <<>>
    /\ all_materials = <<>>
    /\ grouped_data = NoData
    /\ warning_msgs = <<>>
    /\ a_result = "none"

UnifyIdle ==
    /\ u_pc = "idle"
    /\ u_in = EmptyFrame
    /\ u_df = EmptyFrame

ExtractIdle ==
    /\ e_pc = "idle"
    /\ e_data = <<>>
    /\ e_idx = 0
    /\ e_mats = <<>>
    /\ e_cur = 0
    /\ e_par = <<0, 0>>
    /\ e_results = <<>>
    /\ e_out = <<>>

LastIdle == UnifyIdle /\ ExtractIdle

LaterIdle == ValueIdle /\ ParamsIdle /\ RagIdle /\ LastIdle

\* merge_tables.py: merge_tables_in_folder, which makes no call to the client
Init ==
    /\ StitchInit
    /\ oracle_calls = 0
    /\ OracleIdle
    /\ ReducerIdle
    /\ FormulaIdle
    /\ LaterIdle

Next == StitchNext

Spec == Init /\ [][Next]_vars

\* merge_tables_2.py, merge_tables_3.py: merge_connected_tables
InitOracle ==
    /\ OracleInit
    /\ oracle_calls = 0
    /\ StitchIdle
    /\ ReducerIdle
    /\ FormulaIdle
    /\ LaterIdle

SpecOracle == InitOracle /\ [][OracleNext]_vars

\* the loops go on while they can: every check of a pair of pages returns
SpecOracleLive == SpecOracle /\ WF_vars(OracleNext)

\* merge_tables.py: unify_empty_columns_in_first_row
InitReducer ==
    /\ ReducerInit
    /\ oracle_calls = 0
    /\ StitchIdle
    /\ OracleIdle
    /\ FormulaIdle
    /\ LaterIdle

SpecReducer == InitReducer /\ [][ReducerNext]_vars

\* analyze_tables.py, analyze_tables_2.py: format_chemical_formula
InitFormula ==
    /\ FormulaInit
    /\ oracle_calls = 0
    /\ StitchIdle
    /\ OracleIdle
    /\ ReducerIdle
    /\ LaterIdle

SpecFormula == InitFormula /\ [][FormulaNext]_vars

\* analyze_tables.py, analyze_tables_2.py: define_limit_type,
\* format_range_value and format_chemical_formula on one value
InitValue ==
    /\ ValueInit
    /\ oracle_calls = 0
    /\ StitchIdle
    /\ OracleIdle
    /\ ReducerIdle
    /\ FormulaIdle
    /\ ParamsIdle
    /\ RagIdle
    /\ LastIdle

SpecValue == InitValue /\ [][ValueNext]_vars

\* analyze_tables.py, analyze_tables_2.py: the post-processing of the
\* parameters of one material
InitParams ==
    /\ ParamsInit
    /\ oracle_calls = 0
    /\ StitchIdle
    /\ OracleIdle
    /\ ReducerIdle
    /\ FormulaIdle
    /\ ValueIdle
    /\ RagIdle
    /\ LastIdle

SpecParams == InitParams /\ [][ParamsNext]_vars

\* analyze_tables.py: analyze_csv_with_rag on one table
InitRag ==
    /\ RagInit
    /\ oracle_calls = 0
    /\ StitchIdle
    /\ OracleIdle
    /\ ReducerIdle
    /\ FormulaIdle
    /\ ValueIdle
    /\ ParamsIdle
    /\ LastIdle

SpecRag == InitRag /\ [][RagNext]_vars

\* merge_tables.py: the loop of unify_empty_columns_in_first_row on one
\* fragment
InitUnify ==
    /\ UnifyInit
    /\ oracle_calls = 0
    /\ StitchIdle
    /\ OracleIdle
    /\ ReducerIdle
    /\ FormulaIdle
    /\ ValueIdle
    /\ ParamsIdle
    /\ RagIdle
    /\ ExtractIdle

SpecUnify == InitUnify /\ [][UnifyNext]_vars

\* the loop goes on while it can: the function runs to its return
SpecUnifyLive == SpecUnify /\ WF_vars(UnifyNext)

\* analyze_tables_2.py: extract_table_data on one list of rows
InitExtract ==
    /\ ExtractInit
    /\ oracle_calls = 0
    /\ StitchIdle
    /\ OracleIdle
    /\ ReducerIdle
    /\ FormulaIdle
    /\ ValueIdle
    /\ ParamsIdle
    /\ RagIdle
    /\ UnifyIdle

SpecExtract == InitExtract /\ [][ExtractNext]_vars


-----------------------------------------------------------------------------
(* Claims about merge_tables_in_folder (specification Spec).               *)

\* the fragment of page p, as loaded
Frag(p) == load_csv(files[p])

IsNonEmptyPage(p) == ~IsEmpty(Frag(p))

\* the pages whose fragment has rows left after the blank rows are removed
NonEmptyPages == SelectSeq(csv_files, IsNonEmptyPage)

\* C1: for three non-empty fragments a, b, c in page order, b with an
\* all-numeric first row and c without, exactly two tables are written: the
\* first for pages a..b with rows(a) + rows(b) - 1 rows, the second for c
\* alone.
C1_ThreeFragments ==
    (/\ pc = "done"
     /\ Len(NonEmptyPages) = 3
     /\ row_is_all_digits(Frag(NonEmptyPages[2]).rows[1])
     /\ ~row_is_all_digits(Frag(NonEmptyPages[3]).rows[1]))
    => /\ Len(outputs) = 2
       /\ outputs[1].start = NonEmptyPages[1]
       /\ outputs[1].end = NonEmptyPages[2]
       /\ Len(outputs[1].rows) =
             NRows(Frag(NonEmptyPages[1])) + NRows(Frag(NonEmptyPages[2])) - 1
       /\ outputs[2].start = NonEmptyPages[3]
       /\ outputs[2].end = NonEmptyPages[3]
       /\ outputs[2].rows = to_csv(Frag(NonEmptyPages[3]))

\* rows brought to n columns: cut on the right, or filled on the right with
\* empty strings
Conformed(rows, n) ==
    [i \in 1..Len(rows) |->
        [k \in 1..n |-> IF k <= Len(rows[i]) THEN rows[i][k] ELSE <<>>]]

\* C2: a continuation fragment, reduced and without its first row, is padded
\* or truncated to the accumulator's column count and all its rows are
\* appended; it is never skipped.
C2_NeverSkipped ==
    [][(pc = "files" /\ fi <= Len(groups[gi].pages))
         => /\ groups[gi].pages[fi] \in used_files'
            /\ skipped' = skipped
            /\ main_df'.rows =
                  main_df.rows
                    \o Conformed(Candidate(files[groups[gi].pages[fi]]).rows,
                                 NCols(main_df))]_vars

AllRowsHave(rows, n) == \A i \in 1..Len(rows) : Len(rows[i]) = n

\* C3: the accumulator, and every table written, has in every row exactly
\* as many columns as the leading fragment of its group.
C3_LeadingWidth ==
    /\ pc = "files" => AllRowsHave(main_df.rows, NCols(Frag(groups[gi].pages[1])))
    /\ \A k \in 1..Len(outputs) :
          AllRowsHave(outputs[k].rows, NCols(Frag(outputs[k].start)))

\* the cells that are a number in wrapping brackets or dots, or with a
\* decimal comma: 1  (2)  3.  4,5
NumericCells == {NumberCell(c) : c \in 1..(MaxCols + 1)}

NumericFirstRow(row) ==
    /\ \E c \in 1..Len(row) : row[c] # <<>>
    /\ \A c \in 1..Len(row) : row[c] = <<>> \/ row[c] \in NumericCells

\* C4: with a table open, a non-empty fragment whose first row is numeric
\* in every non-empty cell joins the open group, which keeps its start, and
\* no oracle call is made.
C4_NumericRowContinues ==
    [][(/\ pc = "scan"
        /\ idx <= Len(csv_files)
        /\ current_pages # <<>>
        /\ IsNonEmptyPage(csv_files[idx])
        /\ NumericFirstRow(Frag(csv_files[idx]).rows[1]))
         => /\ current_pages' = Append(current_pages, csv_files[idx])
            /\ current_start' = current_start
            /\ groups' = groups
            /\ oracle_calls' = oracle_calls]_vars

\* a fragment with a gap in its numeric first row has joined a group that a
\* text-headed fragment opened
C4_Witness ==
    /\ pc = "scan"
    /\ Len(current_pages) >= 2
    /\ ~row_is_all_digits(Frag(current_pages[1]).rows[1])
    /\ \E c \in 1..NCols(Frag(current_pages[2])) :
          Frag(current_pages[2]).rows[1][c] = <<>>

\* C7: the tables written are those written for the list of files without
\* the fragments that are empty after blank-row removal.
C7_EmptySkipped ==
    pc = "done" => outputs = merge_tables_in_folder(NonEmptyPages)

\* an empty fragment lies inside the page range of a table written
C7_Witness ==
    /\ pc = "done"
    /\ \E k \in 1..Len(outputs) : \E p \in 1..NumFiles :
          /\ ~IsNonEmptyPage(p)
          /\ outputs[k].start < p
          /\ p < outputs[k].end

-----------------------------------------------------------------------------
(* Claims about merge_connected_tables (specification SpecOracle).         *)

\* the step is a connection check that appends the next page to the run
AppendsNextPage ==
    /\ o_pc = "inner"
    /\ connected_files' = Append(connected_files, next_page)

\* C5: the next page is appended only if the oracle's is_continuation and
\* same_dimensions are both the boolean true.
C5_OnlyBooleanTrue ==
    [][AppendsNextPage
         => /\ last_outcome'.kind = "json"
            /\ last_outcome'.is_continuation = "true"
            /\ last_outcome'.same_dimensions = "true"]_vars

\* the failures of the claim: the call raises, the reply has no JSON object,
\* the object does not parse, a required field is missing
FailedOutcome(o) ==
    \/ o.kind \in {"call_error", "no_json", "bad_json"}
    \/ o.kind = "json" /\ o.missing # "none"

\* C6: a connection check that meets a failure leaves the run as it is and
\* ends it at the current page, and no exception leaves
\* merge_connected_tables.
C6_FailClosed ==
    [][(/\ o_pc = "inner"
        /\ next_page \in page_files
        /\ FailedOutcome(last_outcome'))
         => /\ connected_files' = connected_files
            /\ current_page' = current_page
            /\ o_pc' = "close"
            /\ ~escaped']_vars

\* a reply that lacks a required field, its other fields saying true, has
\* ended a run of two pages or more
C6_Witness ==
    /\ o_pc = "close"
    /\ last_outcome.kind = "json"
    /\ last_outcome.missing = "table_title"
    /\ last_verdict = "break"
    /\ Len(connected_files) >= 2

-----------------------------------------------------------------------------
(* Claims about unify_empty_columns_in_first_row (specification            *)
(* SpecReducer).                                                           *)

FirstRow(df) == df.rows[1]

\* the columns that stay: those with a non-blank first-row cell, and those
\* before the first such column
Survives(df, c) ==
    \/ NonBlank(FirstRow(df)[c])
    \/ \A b \in 1..(c - 1) : ~NonBlank(FirstRow(df)[b])

Survivors(df) == SelectSeq([c \in 1..NCols(df) |-> c], LAMBDA c : Survives(df, c))

\* the last column of the group that survivor number k leads
GroupEnd(df, k) ==
    IF k = Len(Survivors(df)) THEN NCols(df) ELSE Survivors(df)[k + 1] - 1

\* a cell's value: the cell, or the cell stripped
ValueOf(x, stripped) == IF stripped THEN Strip(x) ELSE x

\* the values of cells a..b of a row, those that are empty left out, joined
\* with "/"
RECURSIVE JoinWithSlash(_, _, _, _)
JoinWithSlash(row, a, b, stripped) ==
    IF a > b THEN <<>>
    ELSE LET rest == JoinWithSlash(row, a + 1, b, stripped)
             val  == ValueOf(row[a], stripped)
         IN  IF val = <<>> THEN rest
             ELSE IF rest = <<>> THEN val
             ELSE val \o <<"/">> \o rest

\* the fragment with every group of columns folded into its first column;
\* a column that absorbs nothing is kept as it is
Folded(df, stripped) ==
    IF IsEmpty(df) THEN df
    ELSE [cols |-> [k \in 1..Len(Survivors(df)) |-> df.cols[Survivors(df)[k]]],
          rows |-> [i \in 1..NRows(df) |->
                      [k \in 1..Len(Survivors(df)) |->
                          IF GroupEnd(df, k) = Survivors(df)[k]
                          THEN df.rows[i][Survivors(df)[k]]
                          ELSE JoinWithSlash(df.rows[i], Survivors(df)[k],
                                             GroupEnd(df, k), stripped)]]]

\* no first-row cell is made of spaces only
NoSpaceOnlyHeader(df) ==
    IsEmpty(df) \/ \A c \in 1..NCols(df) : FirstRow(df)[c] = <<>> \/ NonBlank(FirstRow(df)[c])

C9_Idempotent ==
    r_pc = "twice" => r_twice = r_out

\* the reducer had two or more columns to merge, and merged cells to strip
C9_Witness ==
    /\ r_pc = "twice"
    /\ NCols(r_in) - NCols(r_out) >= 2
    /\ NRows(r_in) >= 2

-----------------------------------------------------------------------------
(* Claims about format_chemical_formula (specification SpecFormula).       *)

\* C10: format_chemical_formula applied to its own result returns that
\* result.
C10_Idempotent ==
    f_pc = "twice" => f_twice = f_out

\* the table's entry for a key
Glyphs(key) ==
    Replacements[CHOOSE i \in 1..Len(Replacements) : Replacements[i][1] = key][2]

\* C11: format_chemical_formula applied to a formula that is an ASCII key
\* of the lookup table returns the table's subscript form of that key.
C11_LookupKeys ==
    (f_pc # "in" /\ f_in \in LookupKeys) => f_out = Glyphs(f_in)

-----------------------------------------------------------------------------
(* Claims about the normaliser on one value (specification SpecValue).     *)

\* the limit type of a text: max if it has the first phrase, else min if it
\* has the second, else range if it has a dash or a division sign, else
\* exact; a phrase counts in any letter case
LimitOf(text) ==
    IF Contains(Lower(text), NeBolee) THEN <<"max">>
    ELSE IF Contains(Lower(text), NeMenee) THEN <<"min">>
    ELSE IF Has(text, "-") \/ Has(text, "div") THEN <<"range">>
    ELSE <<"exact">>

Classified == "limit" \in val_done /\ IsStr(val_in) /\ val_in.s # <<>>

\* C12: define_limit_type of a non-empty string is max if the string
\* contains 'не более' (in any letter case), otherwise min if it contains
\* 'не менее', otherwise range if it contains "-" or the division sign,
\* otherwise exact: a phrase wins over a dash in the same string.
C12_LimitType ==
    Classified => val_limit = Str(LimitOf(val_in.s))

\* a capitalised phrase and a dash in one value, classified max
C12_Witness ==
    /\ Classified
    /\ Contains(val_in.s, NeBoleeCap)
    /\ Has(val_in.s, "-")
    /\ val_limit = Str(<<"max">>)

\* the argument is not a str, or is the empty str
NotText == val_in # Absent /\ (~IsStr(val_in) \/ val_in.s = <<>>)

-----------------------------------------------------------------------------
(* Claims about the parameters of a material (specification SpecParams).   *)

\* parameter q of the final list comes from parameter i of the list given:
\* it has the value, the notes and the limit_type that the loop of
\* process_parameters left for i
Origin(q, i) ==
    /\ q.value = p_processed[i].value
    /\ q.notes = p_processed[i].notes
    /\ q.limit_type = p_processed[i].limit_type

\* C13: after the post-processing, the limit_type of every parameter is
\* define_limit_type of the value the oracle gave for it, whatever
\* limit_type the oracle gave.
C13_LimitTypeFromOriginal ==
    p_pc = "done" =>
        \A k \in 1..Len(p_out) :
            /\ \E i \in 1..Len(p_params) : Origin(p_out[k], i)
            /\ \A i \in 1..Len(p_params) :
                  (Origin(p_out[k], i) /\ p_params[i].value # Absent)
                      => p_out[k].limit_type = define_limit_type(p_params[i].value)

\* the (name, value) pair of a parameter
PairOf(p) == <<p.name, p.value>>

\* the parameters of a list that have no earlier parameter with their pair,
\* in the order of the list
FirstSeen(list) ==
    LET keep(i) == \A j \in 1..(i - 1) : PairOf(list[j]) # PairOf(list[i])
        F[i \in 0..Len(list)] ==
            IF i = 0 THEN <<>>
            ELSE IF keep(i) THEN Append(F[i - 1], list[i]) ELSE F[i - 1]
    IN  F[Len(list)]

\* C14: of the parameters given to deduplicate_parameters, the first with
\* each (name, value) pair is kept as it is and the later ones are dropped,
\* the order is kept, and no two parameters of the final record have the
\* same pair.
C14_FirstSeenKept ==
    p_pc = "done" =>
        /\ p_out = FirstSeen(p_processed)
        /\ \A k, l \in 1..Len(p_out) : k # l => PairOf(p_out[k]) # PairOf(p_out[l])

-----------------------------------------------------------------------------
(* Claims about analyze_csv_with_rag (specification SpecRag).              *)

\* the rows whose records are under a key of grouped_data
RowsUnder(key) ==
    IF key \in DOMAIN grouped_data
    THEN {grouped_data[key][k].row_name : k \in 1..Len(grouped_data[key])}
    ELSE {}

\* the oracle answered every extraction call with a list that has one
\* material for each row of the fragment, under the row's number in the table
AllRepliesFaithful == \A k \in 1..Len(a_replies) : a_replies[k].reply = "rows"

\* C15: in the result, every row number of 1..len(rows) that is not in the
\* row-number-to-group lookup is in the group "ungrouped" (the oracle having
\* answered every extraction call faithfully).
C15_UnlistedRowsUngrouped ==
    (a_result = "result" /\ AllRepliesFaithful) =>
        \A r \in 1..a_rows :
            r \notin DOMAIN row_to_group(a_grouping.groups) => r \in RowsUnder("ungrouped")

\* the extraction calls process_group makes for the grouping: one for each
\* group, one for each subgroup, one for ungrouped_rows when it is not empty
RECURSIVE UnitCount(_)
UnitCount(groups_info) ==
    IF groups_info = <<>> THEN 0
    ELSE 1 + Len(Head(groups_info).subgroups) + UnitCount(Tail(groups_info))

ExpectedCalls ==
    UnitCount(a_grouping.groups) + (IF a_grouping.ungrouped_rows # <<>> THEN 1 ELSE 0)

\* the records of the result, whatever their group
RowsInResult == UNION {RowsUnder(key) : key \in DOMAIN grouped_data}

\* the replies that are a failure, malformed JSON or not a materials list
BadReplies == {"fail", "badjson", "nomaterials", "null"}

\* C16: when analyze_csv_with_rag has ended after a grouping was found, it
\* has raised no exception and returned a result, every group, subgroup and
\* ungrouped_rows had its extraction call, a call whose reply was a failure,
\* malformed JSON or not a materials list gave no record, and the records of
\* every other call are in the result.
C16_BadReplyGivesNoRecords ==
    (a_pc = "done" /\ a_structure = "ok" /\ ~a_grouping.error) =>
        /\ a_result = "result"
        /\ Len(a_replies) = ExpectedCalls
        /\ \A k \in 1..Len(a_replies) :
              IF a_replies[k].reply \in BadReplies
              THEN Elems(a_replies[k].row_numbers) \cap RowsInResult = {}
              ELSE Elems(a_replies[k].row_numbers) \subseteq RowsInResult

\* C17: when the call of find_semantic_groups fails, analyze_csv_with_rag
\* still returns a result with grouped_data that has the group "ungrouped",
\* and with a warning.
C17_GroupingFailureRecovered ==
    (a_pc = "done" /\ a_grouping.error) =>
        /\ a_result = "result"
        /\ "ungrouped" \in DOMAIN grouped_data
        /\ warning_msgs # <<>>

\* the row number is in a subgroup of the i-th group and in no other list
\* of a group or subgroup
OnlyInSubgroupOf(rnum, i) ==
    LET gs == a_grouping.groups
        InSub(g) == \E j \in 1..Len(g.subgroups) : rnum \in Elems(g.subgroups[j].row_numbers)
    IN  /\ i \in 1..Len(gs)
        /\ InSub(gs[i])
        /\ \A h \in 1..Len(gs) : rnum \notin Elems(gs[h].row_numbers)
        /\ \A h \in 1..Len(gs) : h # i => ~InSub(gs[h])

\* C19: in the result, the record of every material whose row_number is
\* listed only in a subgroup of a group G is under the key of G, and under
\* no key that is the subgroup's name.
C19_SubgroupRowsUnderParent ==
    a_result = "result" =>
        \A k \in 1..Len(all_materials) : \A i \in 1..Len(a_grouping.groups) :
            OnlyInSubgroupOf(all_materials[k].row_number, i) =>
                LET g == a_grouping.groups[i]
                IN  /\ all_materials[k].name \in RowsUnder(g.name)
                    /\ \A j \in 1..Len(g.subgroups) :
                          all_materials[k].name \notin RowsUnder(g.subgroups[j].name)

\* a result in which a material with a row number of the subgroup only is
\* under the parent group
C19_Witness ==
    /\ a_result = "result"
    /\ \E k \in 1..Len(all_materials) :
          /\ OnlyInSubgroupOf(all_materials[k].row_number, 1)
          /\ all_materials[k].name \in RowsUnder(GroupNames[1])

\* the grouping has no groups and no ungrouped_rows
NothingGrouped ==
    /\ ~a_grouping.error
    /\ a_grouping.groups = <<>>
    /\ a_grouping.ungrouped_rows = <<>>

\* C20: when the grouping has no groups and no ungrouped_rows,
\* analyze_csv_with_rag returns a result with a warning in which every row
\* of the table is in the group "ungrouped"; and a result has the warning
\* exactly when both lists are empty.
C20_NothingGroupedWarning ==
    /\ (a_pc = "done" /\ a_structure = "ok" /\ NothingGrouped) =>
          /\ a_result = "result"
          /\ warning_msgs # <<>>
          /\ \A r \in 1..a_rows : r \in RowsUnder("ungrouped")
    /\ a_result = "result" => (warning_msgs # <<>> <=> NothingGrouped)

\* C23: a result in which some row of 1..len(rows) has no record carries a
\* warning (the claim asks more: that the warning names the row).
C23_UncoveredRowsWarned ==
    a_result = "result" =>
        ((\E r \in 1..a_rows : r \notin RowsInResult) => warning_msgs # <<>>)

\* digits with at most one dot among them
IsNumber(t) ==
    /\ \A i \in 1..Len(t) : t[i] \in PyDigits \cup {"."}
    /\ \E i \in 1..Len(t) : t[i] \in PyDigits
    /\ \A i, j \in 1..Len(t) : (t[i] = "." /\ t[j] = ".") => i = j

\* text is a number, then a separator from the i-th character to the j-th,
\* then a number
NumberSepNumber(text, i, j) ==
    /\ 1 < i /\ i <= j /\ j < Len(text)
    /\ IsNumber(SubSeq(text, 1, i - 1))
    /\ IsNumber(SubSeq(text, j + 1, Len(text)))

\* the two numbers of such a text, joined by a dash
DashJoined(text, i, j) ==
    SubSeq(text, 1, i - 1) \o <<"-">> \o SubSeq(text, j + 1, Len(text))

Ranged == "range" \in val_done /\ IsStr(val_in) /\ val_in.s # <<>>

\* C21: format_range_value gives "a-b" for two numbers a and b separated by
\* spaces only ("1 5") or by one comma only ("1,5"), and for a range "a-b"
\* after 'в пределах' and a space.
C21_TwoNumbersJoined ==
    Ranged =>
        LET text == val_in.s
            lead == VPredelakh \o <<" ">>
            rest == SubSeq(text, Len(lead) + 1, Len(text))
        IN  /\ \A i, j \in 2..(Len(text) - 1) :
                  (/\ i <= j
                   /\ \A k \in i..j : text[k] = " "
                   /\ NumberSepNumber(text, i, j))
                      => val_range = Str(DashJoined(text, i, j))
            /\ \A i \in 2..(Len(text) - 1) :
                  (text[i] = "," /\ NumberSepNumber(text, i, i))
                      => val_range = Str(DashJoined(text, i, i))
            /\ (Len(text) > Len(lead) /\ SubSeq(text, 1, Len(lead)) = lead) =>
                  \A i \in 2..(Len(rest) - 1) :
                      (rest[i] = "-" /\ NumberSepNumber(rest, i, i))
                          => val_range = Str(rest)

\* "1 5" has become "1-5"
C21_Witness ==
    /\ Ranged
    /\ val_in.s = <<"1", " ", "5">>
    /\ val_range = Str(<<"1", "-", "5">>)

\* C22: the result of format_range_value on a string contains neither
\* 'не более' nor 'не менее', and for a phrase followed by a space and a
\* number the result is the number.
C22_QualifiersStripped ==
    Ranged =>
        /\ ~Contains(val_range.s, NeBolee)
        /\ ~Contains(val_range.s, NeMenee)
        /\ \A phrase \in {NeBolee, NeMenee} :
              LET lead == phrase \o <<" ">>
                  rest == SubSeq(val_in.s, Len(lead) + 1, Len(val_in.s))
              IN  (/\ Len(val_in.s) > Len(lead)
                   /\ SubSeq(val_in.s, 1, Len(lead)) = lead
                   /\ IsNumber(rest))
                      => val_range = Str(rest)

\* C28: a value that define_limit_type calls exact has no "-" after
\* format_range_value.
C28_ExactHasNoDash ==
    (/\ {"limit", "range"} \subseteq val_done
     /\ IsStr(val_in)
     /\ val_limit = Str(<<"exact">>))
        => ~Has(val_range.s, "-")

\* C29: format_range_value of the result of format_range_value is that
\* result.
C29_RangeIdempotent ==
    "twice" \in val_done => val_twice = val_range

\* the fragment of a page is not empty
HasRows(p) == ~IsEmpty(load_csv(files[p]))

\* the first row of the fragment of a page is all numbers
NumericHead(p) == row_is_all_digits(load_csv(files[p]).rows[1])

\* the pages of the runs, one run after the other
RECURSIVE PagesOfRuns(_)
PagesOfRuns(gs) ==
    IF gs = <<>> THEN <<>> ELSE Head(gs).pages \o PagesOfRuns(Tail(gs))

\* C25: once the scan is over, the runs, one after the other, are the
\* non-empty fragments in page order; a run starts at the first non-empty
\* fragment or at a fragment whose first row is not all-numeric, and every
\* other fragment of a run has an all-numeric first row; the start pages of
\* the runs, and of the files written for them, are strictly increasing.
C25_MaximalRuns ==
    pc # "scan" =>
        /\ PagesOfRuns(groups) = SelectSeq(csv_files, HasRows)
        /\ \A k \in 1..Len(groups) :
              /\ groups[k].pages # <<>>
              /\ groups[k].start = groups[k].pages[1]
              /\ k > 1 => ~NumericHead(groups[k].pages[1])
              /\ \A i \in 2..Len(groups[k].pages) : NumericHead(groups[k].pages[i])
              /\ k > 1 => groups[k - 1].start < groups[k].start
        /\ Len(outputs) <= Len(groups)
        /\ \A k \in 1..Len(outputs) : outputs[k].start = groups[k].start
        /\ pc = "done" => Len(outputs) = Len(groups)

\* two runs written, the first of two fragments
C25_Witness ==
    /\ pc = "done"
    /\ Len(outputs) = 2
    /\ Len(groups[1].pages) = 2
    /\ outputs[1].start < outputs[2].start

\* the rows of a used file that are to be in the table of its run: all the
\* rows of a leading file, the rows after the first of a continuation
RowsToFold(p, leading) ==
    IF leading THEN load_csv(files[p]).rows
    ELSE IF NRows(load_csv(files[p])) > 1 THEN Tail(load_csv(files[p]).rows) ELSE <<>>

\* the cell is in a table written, alone or joined with a neighbour by "/"
InSomeOutput(cell) ==
    \E k \in 1..Len(outputs) : \E i \in 1..Len(outputs[k].rows) :
        \E c \in 1..Len(outputs[k].rows[i]) : Contains(outputs[k].rows[i][c], Strip(cell))

\* the files named in the runs: leading files and continuations
LeadingFiles == {groups[k].pages[1] : k \in 1..Len(groups)}
ContinuationFiles ==
    UNION {{groups[k].pages[i] : i \in 2..Len(groups[k].pages)} : k \in 1..Len(groups)}

\* the rows of the k-th table written are as many as the rows to fold of the
\* used files of the k-th run
RECURSIVE RowsFolded(_, _)
RowsFolded(pages, leading) ==
    IF pages = <<>> THEN 0
    ELSE (IF Head(pages) \in used_files
          THEN Len(RowsToFold(Head(pages), leading)) ELSE 0)
         + RowsFolded(Tail(pages), FALSE)

\* the list returned: the leading file of every run and the continuations
\* that were not skipped, each with all its rows in the table of its run
UsedFilesFolded ==
    /\ skipped \cap used_files = {}
    /\ LeadingFiles \subseteq used_files
    /\ used_files = LeadingFiles \cup (ContinuationFiles \ skipped)
    /\ \A k \in 1..Len(groups) :
          Len(outputs[k].rows) = RowsFolded(groups[k].pages, TRUE)

\* C27 as stated: at the return, a skipped file is not in the list, the
\* leading file of every run is, every file of the list has its rows in the
\* table of its run, and no data of a file of the list is absent from every
\* table written.
C27_DeletionLosesNothing ==
    pc = "done" =>
        /\ UsedFilesFolded
        /\ \A p \in used_files :
              LET rows == RowsToFold(p, p \in LeadingFiles)
              IN  \A i \in 1..Len(rows) : \A c \in 1..Len(rows[i]) :
                      NonBlank(rows[i][c]) => InSomeOutput(rows[i][c])

\* C27, amended: at the return, a skipped file is not in the list, the
\* leading file of every run is, and every file of the list has its rows in
\* the table of its run (cells beyond the width of the leading fragment
\* being cut off).
C27_UsedFilesFolded ==
    pc = "done" => UsedFilesFolded

\* a run whose first continuation was skipped and whose second was folded
C27_Witness ==
    /\ pc = "done"
    /\ \E k \in 1..Len(groups) :
          /\ Len(groups[k].pages) = 3
          /\ groups[k].pages[2] \in skipped
          /\ groups[k].pages[3] \in used_files
          /\ Len(outputs[k].rows) > NRows(load_csv(files[groups[k].pages[1]]))

-----------------------------------------------------------------------------
(* Claims about the loop of unify_empty_columns_in_first_row               *)
(* (specifications SpecUnify and SpecUnifyLive).                           *)

\* the first row has no blank cell whose left neighbour is not blank
NoBlankAfterFilled(df) ==
    NRows(df) >= 1 => \A j \in 2..NCols(df) :
        ~(NonBlank(FirstRow(df)[j - 1]) /\ ~NonBlank(FirstRow(df)[j]))

\* C24: on a fragment with at least 1 row and 2 columns
\* unify_empty_columns_in_first_row returns, and the first row of what it
\* returns has no empty cell whose left neighbour is non-empty (empty
\* meaning empty once stripped, as the scan reads the cells).
C24_UnifyTerminates ==
    (NRows(u_in) >= 1 /\ NCols(u_in) >= 2)
        => <>[](u_pc = "done" /\ NoBlankAfterFilled(u_df))

\* every merging pass removes exactly one column
C24_EachMergeDropsOne ==
    [][(u_pc = "loop" /\ u_pc' = "loop") => NCols(u_df') = NCols(u_df) - 1]_vars

\* the function has returned after two or more merging passes
C24_Witness ==
    /\ u_pc = "done"
    /\ NRows(u_in) >= 1
    /\ NCols(u_in) - NCols(u_df) >= 2
    /\ NoBlankAfterFilled(u_df)

-----------------------------------------------------------------------------
(* Claims about extract_table_data.                                        *)

\* s is t, or t with something added at its end
Extends(s, t) == Len(s) >= Len(t) /\ SubSeq(s, 1, Len(t)) = t

\* the row a step of the loop takes, as line 583 cleans it
RowTaken == CleanRow(e_data[e_idx + 1])

\* the materials made before the step are as they were, but the one at m
OthersKept(m) ==
    /\ Len(e_mats') >= Len(e_mats)
    /\ \A k \in 1..Len(e_mats) : k # m => e_mats'[k] = e_mats[k]

\* the step has added one parameter to the current material
OneParameterAdded ==
    /\ e_cur' = e_cur
    /\ Len(e_mats') = Len(e_mats)
    /\ OthersKept(e_cur)
    /\ LET old == e_mats[e_cur]
           new == e_mats'[e_cur]
       IN  /\ Len(new.parameters) = Len(old.parameters) + 1
           /\ SubSeq(new.parameters, 1, Len(old.parameters)) = old.parameters
           /\ new.parameters[Len(new.parameters)].name = RowTaken[4]
           /\ [new EXCEPT !.parameters = old.parameters] = old

\* the step has at most added text to fields of the current material or of
\* its last parameter
OnlyExtended ==
    /\ e_cur' = e_cur
    /\ e_par' = e_par
    /\ Len(e_mats') = Len(e_mats)
    /\ OthersKept(e_cur)
    /\ LET old == e_mats[e_cur]
           new == e_mats'[e_cur]
           n == Len(old.parameters)
       IN  /\ new.row_number = old.row_number
           /\ new.number = old.number
           /\ Extends(new.name, old.name)
           /\ Extends(new.standard, old.standard)
           /\ Extends(new.application, old.application)
           /\ Len(new.parameters) = n
           /\ \A k \in 1..n :
                 IF k = n
                 THEN /\ Extends(new.parameters[k].name, old.parameters[k].name)
                      /\ Extends(new.parameters[k].value, old.parameters[k].value)
                      /\ new.parameters[k].unit = old.parameters[k].unit
                      /\ new.parameters[k].limit_type = old.parameters[k].limit_type
                 ELSE new.parameters[k] = old.parameters[k]

\* what a step of the loop does, by the row it takes
RowStepAsClaimed ==
    IF IsBlankRow(e_data[e_idx + 1])
    THEN UNCHANGED <<e_mats, e_cur, e_par, e_results>>
    ELSE IF IsMaterialNumber(RowTaken[1])
    THEN /\ Len(e_mats') = Len(e_mats) + 1
         /\ e_cur' = Len(e_mats')
         /\ OthersKept(0)
         /\ e_mats'[e_cur'].row_number = e_idx + 1
         /\ e_mats'[e_cur'].parameters = <<>>
    ELSE IF e_cur = 0
    THEN UNCHANGED <<e_mats, e_cur, e_par, e_results>>
    ELSE IF RowTaken[1] = <<>> /\ Len(RowTaken) >= 4 /\ RowTaken[4] # <<>>
    THEN OneParameterAdded
    ELSE OnlyExtended

\* C26: a row whose leading cell is a number (digits, with or without a dot
\* after them) starts a new record; a later row with an empty leading cell
\* and a parameter name adds one parameter to the record started last; any
\* other row with something in it at most adds text to fields of that
\* record or of its latest parameter; rows before the first record
\* contribute nothing. After every step the current material is the one
\* made last, the current parameter, when set, is the last parameter of the
\* current material, and no material but the one made last has changed.
C26_RowStateMachine ==
    [][/\ e_idx' = e_idx + 1 => RowStepAsClaimed
       /\ e_cur' = Len(e_mats')
       /\ e_par' # NoRef => (e_cur' # 0 /\ e_par' = <<e_cur', Len(e_mats'[e_cur'].parameters)>>)
       /\ \A k \in 1..Len(e_mats) : k # e_cur' => e_mats'[k] = e_mats[k]
       /\ e_pc' = "done" => e_out' = e_mats']_vars

\* a run of three rows: a record, a parameter of it, and a row that adds text
\* to the name of the parameter
C26_Witness ==
    /\ e_pc = "done"
    /\ Len(e_out) = 1
    /\ e_out[1].row_number = 1
    /\ Len(e_out[1].parameters) = 1
    /\ e_out[1].parameters[1].name = <<"p", " ", "p">>

-----------------------------------------------------------------------------
(* Claims about the loops of merge_connected_tables.                       *)

\* the pages of a sequence of pages
PagesIn(pages) == {pages[i] : i \in 1..Len(pages)}

\* the tables produced that hold page p
TablesOf(p) == {k \in 1..Len(results) : p \in PagesIn(results[k].pages)}

\* a run goes over page numbers that follow one another and have a file
ConsecutiveRun(pages) ==
    /\ pages # <<>>
    /\ PagesIn(pages) \subseteq page_files
    /\ \A i \in 1..(Len(pages) - 1) : pages[i + 1] = pages[i] + 1

\* no page is in two tables, and the pages of the tables are pages with a
\* file
RunsApart ==
    /\ \A k \in 1..Len(results) : ConsecutiveRun(results[k].pages)
    /\ \A p \in page_files : Cardinality(TablesOf(p)) <= 1
    /\ ConsecutiveRun(connected_files) \/ connected_files = <<>>

\* every page file is in exactly one table
EveryPageOnce == \A p \in page_files : Cardinality(TablesOf(p)) = 1

\* current_idx moves at the end of an iteration of the outer loop, and only
\* forward
IndexForward ==
    /\ (o_pc = "outer" /\ o_pc' = "outer") => current_idx' > current_idx
    /\ o_pc = "close" => current_idx' > current_idx
    /\ current_idx' >= current_idx
    /\ current_idx' <= Len(PageList)

====
